---- MODULE Spec2Model ----
(***************************************************************************)
(* Giveaway lifecycle and scheduling core of the daily giveaway bot        *)
(* (src/src/giveaway_manager.py, models.py, storage.py, bot.py), as a     *)
(* state machine.                                                          *)
(*                                                                         *)
(* One workspace (guild) is modelled.  Time is a discrete clock `now`;     *)
(* a day has TicksPerDay ticks.  Every `async with self._state_lock`       *)
(* section, together with the save_state() that ends it and the code that  *)
(* follows it without a suspension point, is one atomic action; every      *)
(* other `await` separates two actions.  save_state() writes the whole     *)
(* in-memory state, so `disk` becomes what a load reads back of `mem` at    *)
(* each save.                                                              *)
(* Identifiers (_generate_giveaway_id) are modelled as fresh.              *)
(***************************************************************************)
EXTENDS Integers, Sequences, FiniteSets, TLC

VARIABLES
    now,      \* datetime.now(tz=UTC), in ticks
    config,   \* Config: scheduling.auto_enabled, scheduling.giveaways
    mem,      \* GiveawayManager.state: the GuildState of the workspace
    disk,     \* what StateStorage holds: the GuildState last saved
    tasks,    \* live asyncio tasks: timers and handlers between two awaits
    sweep,    \* the _scheduled_checker task: its position and locals
    nextId,   \* source of fresh identifiers
    boot,     \* number of process restarts so far
    hist      \* observer: what has happened (never read by the program)

vars == <<now, config, mem, disk, tasks, sweep, nextId, boot, hist>>

----------------------------------------------------------------------------
(* Bounds of the model *)

TicksPerDay == 3
MaxIds == 3
MaxWinners == 2
MaxRestarts == 1
MaxRerolls == 1
LifeMaxGiveaways == 1
LifeMaxTime == 1

Users == {1, 2}
Ids == 1..MaxIds

(* Program constants *)
RetentionDays == 30

----------------------------------------------------------------------------
(* Helpers *)

Range(s) == {s[i] : i \in DOMAIN s}
Min(a, b) == IF a <= b THEN a ELSE b
Max(a, b) == IF a >= b THEN a ELSE b
Days(d) == d * TicksPerDay
SeqWithout(s, x) == SelectSeq(s, LAMBDA y : y # x)
SeqMinus(s, S) == SelectSeq(s, LAMBDA y : y \notin S)

\* (mutant) a sample that may name a member twice
SamplesWithRepeats(pop, k) == [1..k -> Range(pop)]

\* rng.sample(population, k): every ordered choice of k distinct members
Samples(pop, k) ==
    {s \in [1..k -> Range(pop)] : \A i, j \in 1..k : i # j => s[i] # s[j]}

NoSchedule == <<>>
CfgId(k) == <<"cfg", k>>
RecId(i) == <<"R", i>>

----------------------------------------------------------------------------
(* models.py *)

Giveaway(w, t, d, e, sid) ==
    [winners |-> w, title |-> t, description |-> d, end_time |-> e,
     participants |-> <<>>,
     scheduled_id |-> sid, is_active |-> TRUE,
     last_announced_winners |-> <<>>, listed |-> TRUE]

GuildState ==
    [auto_enabled |-> TRUE, timezone |-> 0, schedule_runs |-> <<>>,
     giveaways |-> <<>>, pending_giveaways |-> <<>>,
     recurring_giveaways |-> <<>>,
     recent_winner_cooldown_enabled |-> FALSE,
     recent_winner_cooldown_days |-> 0, recent_winners |-> <<>>,
     admin_roles |-> <<>>]

\* guild_state.giveaways: the ids of the objects in the list, in list order
\* (upsert_giveaway appends fresh ids, so list order is id order)
Listed(m) == {g \in DOMAIN m.giveaways : m.giveaways[g].listed}

get_giveaway(m, g) == g \in Listed(m)

list_active(m) == {g \in Listed(m) : m.giveaways[g].is_active}

upsert_giveaway(m, g, rec) ==
    [m EXCEPT !.giveaways = (g :> rec) @@ @]

----------------------------------------------------------------------------
(* storage.py: one SQLite file per workspace *)

SortedSeq(S) ==
    CHOOSE s \in [1..Cardinality(S) -> S] :
        \A i, j \in 1..Cardinality(S) : i < j => s[i] < s[j]

\* datetime.isoformat and datetime.fromisoformat (aware datetimes)
isoformat(t) == <<"iso", t>>
fromisoformat(x) == x[2]

\* time.strftime("%H:%M") and datetime.strptime(.., "%H:%M").time(), on the
\* whole minutes the commands produce
strftime(t) == <<"HH:MM", t>>
strptime(x) == x[2]

\* json.dumps(list(map(int, ids))) and [int(v) for v in json.loads(..)]
json_dumps(ids) == <<"json", ids>>
json_loads(x) == x[2]

\* SELECT .. FROM recent_winners ORDER BY won_at (319-321): the rows by
\* won_at, rows of one won_at in insertion order
RECURSIVE select_recent_winners(_)
select_recent_winners(rows) ==
    IF Len(rows) <= 1 THEN rows
    ELSE LET init == select_recent_winners(SubSeq(rows, 1, Len(rows) - 1))
             e == rows[Len(rows)]
             k == Cardinality({i \in DOMAIN init :
                                 init[i].won_at[2] <= e.won_at[2]})
         IN  SubSeq(init, 1, k) \o <<e>> \o SubSeq(init, k + 1, Len(init))

\* _write_guild_db (98-251): the tables after the commit.  admin_roles has
\* role_id INTEGER PRIMARY KEY (363-367), so its rows are the set of the
\* role ids; a giveaway object dropped from the list is not written
write_guild_db(m) ==
    [metadata |->
        [auto_enabled |-> m.auto_enabled, timezone |-> m.timezone,
         recent_winner_cooldown_enabled |-> m.recent_winner_cooldown_enabled,
         recent_winner_cooldown_days |-> m.recent_winner_cooldown_days],
     schedule_runs |-> {<<k, m.schedule_runs[k]>> : k \in DOMAIN m.schedule_runs},
     admin_roles |-> Range(m.admin_roles),
     giveaways |->
        [g \in Listed(m) |->
           [m.giveaways[g] EXCEPT
              !.end_time = isoformat(@),
              !.participants = json_dumps(@),
              !.is_active = IF @ THEN 1 ELSE 0,
              !.last_announced_winners = json_dumps(@)]],
     pending_giveaways |->
        [p \in DOMAIN m.pending_giveaways |->
           [m.pending_giveaways[p] EXCEPT !.start_time = isoformat(@),
                                          !.end_time = isoformat(@)]],
     recurring_giveaways |->
        [r \in DOMAIN m.recurring_giveaways |->
           [m.recurring_giveaways[r] EXCEPT
              !.start_time = strftime(@), !.end_time = strftime(@),
              !.next_start = isoformat(@), !.next_end = isoformat(@),
              !.enabled = IF @ THEN 1 ELSE 0]],
     recent_winners |->
        [i \in DOMAIN m.recent_winners |->
           [m.recent_winners[i] EXCEPT !.won_at = isoformat(@)]]]

\* _read_guild_db (253-339).  SELECT role_id FROM admin_roles (273) walks
\* the table by its key, role_id
read_guild_db(db) ==
    [auto_enabled |-> db.metadata.auto_enabled,
     timezone |-> db.metadata.timezone,
     schedule_runs |->
        [k \in {r[1] : r \in db.schedule_runs} |->
           (CHOOSE r \in db.schedule_runs : r[1] = k)[2]],
     giveaways |->
        [g \in DOMAIN db.giveaways |->
           [db.giveaways[g] EXCEPT
              !.end_time = fromisoformat(@),
              !.participants = json_loads(@),
              !.is_active = (@ # 0),
              !.last_announced_winners = json_loads(@)]],
     pending_giveaways |->
        [p \in DOMAIN db.pending_giveaways |->
           [db.pending_giveaways[p] EXCEPT !.start_time = fromisoformat(@),
                                           !.end_time = fromisoformat(@)]],
     recurring_giveaways |->
        [r \in DOMAIN db.recurring_giveaways |->
           [db.recurring_giveaways[r] EXCEPT
              !.start_time = strptime(@), !.end_time = strptime(@),
              !.next_start = fromisoformat(@), !.next_end = fromisoformat(@),
              !.enabled = (@ # 0)]],
     recent_winner_cooldown_enabled |->
        db.metadata.recent_winner_cooldown_enabled,
     recent_winner_cooldown_days |-> db.metadata.recent_winner_cooldown_days,
     recent_winners |->
        LET rows == select_recent_winners(db.recent_winners)
        IN  [i \in DOMAIN rows |->
               [rows[i] EXCEPT !.won_at = fromisoformat(@)]],
     admin_roles |-> SortedSeq(db.admin_roles)]

\* StateStorage.save then load: the state a load reads after m was saved
Payload(m) == read_guild_db(write_guild_db(m))

----------------------------------------------------------------------------
(* Tasks.  kind: "finish" (a _schedule_finish waiter, or the task made for  *)
(* a delay <= 0), "end" (an end_giveaway call that has flipped is_active    *)
(* and runs _finalize_giveaway), "auditfin" (the _finalize_giveaway the     *)
(* overdue audit runs).  reg: the task is the one recorded under its id in  *)
(* the registry dict.  owner "sweep": the sweep awaits this call.           *)

Task(kind, id, pc, wake, reg, owner) ==
    [kind |-> kind, id |-> id, pc |-> pc, wake |-> wake, reg |-> reg,
     owner |-> owner, w |-> <<>>]

Registered(ts, kind, id) == {t \in ts : t.kind = kind /\ t.id = id /\ t.reg}

\* registry[id] = task: the entry now names the new task only
Register(ts, t) ==
    {IF u.kind = t.kind /\ u.id = t.id /\ u.reg THEN [u EXCEPT !.reg = FALSE]
     ELSE u : u \in ts} \cup {t}

\* task.cancel() on the registered finish waiter: it ends at its sleep
CancelFinish(ts, g) == ts \ Registered(ts, "finish", g)

\* _schedule_finish (giveaway_manager.py 1204-1227)
schedule_finish(ts, m, g, reschedule, n) ==
    LET ts1 == IF reschedule THEN CancelFinish(ts, g) ELSE ts
        rec == m.giveaways[g]
    IN  IF ~rec.is_active THEN ts1
        ELSE IF rec.end_time - n <= 0
             THEN ts1 \cup {Task("finish", g, "sleep", rec.end_time, FALSE, "task")}
             ELSE Register(ts1, Task("finish", g, "sleep", rec.end_time, TRUE, "task"))

----------------------------------------------------------------------------
(* Recent-winner ledger and winner selection *)

RecentWinner(u, g, t) == [user_id |-> u, giveaway_id |-> g, won_at |-> t]

\* (mutant) the cool-down cut-off itself is outside the cool-down
get_recent_winner_blocklist_after(m, n) ==
    LET cooldown_days == Max(m.recent_winner_cooldown_days, 0)
        retained == SelectSeq(m.recent_winners,
                              LAMBDA e : e.won_at >=
                                n - Days(Max(cooldown_days, RetentionDays)))
    IN  [mem |-> [m EXCEPT !.recent_winners = retained],
         needs_save |-> Len(retained) # Len(m.recent_winners),
         blocked |-> IF m.recent_winner_cooldown_enabled /\ cooldown_days > 0
                     THEN {e.user_id : e \in
                             {x \in Range(retained) :
                                x.won_at > n - Days(cooldown_days)}}
                     ELSE {}]

\* _get_recent_winner_blocklist (giveaway_manager.py 146-181)
get_recent_winner_blocklist(m, n) ==
    LET cooldown_enabled == m.recent_winner_cooldown_enabled
        cooldown_days == Max(m.recent_winner_cooldown_days, 0)
        retention_cutoff == n - Days(Max(cooldown_days, RetentionDays))
        retained == SelectSeq(m.recent_winners,
                              LAMBDA e : e.won_at >= retention_cutoff)
        blocking == cooldown_enabled /\ cooldown_days > 0
        blocked == IF blocking
                   THEN {e.user_id : e \in
                           {x \in Range(retained) :
                              x.won_at >= n - Days(cooldown_days)}}
                   ELSE {}
    IN  [mem |-> [m EXCEPT !.recent_winners = retained],
         needs_save |-> Len(retained) # Len(m.recent_winners),
         blocked |-> blocked]

\* (mutant) a reroll that keeps the previous winners in the population
choose_winners_keep_previous(rec, reroll, blocked) ==
    IF Len(rec.participants) = 0 THEN {<<>>}
    ELSE
      LET pop2 == IF blocked # {} THEN SeqMinus(rec.participants, blocked)
                  ELSE rec.participants
          count == Min(Min(rec.winners, Len(rec.participants)), Len(pop2))
      IN  IF count = 0 THEN {<<>>} ELSE Samples(pop2, count)

\* _choose_winners (giveaway_manager.py 847-879): the lists it may return
choose_winners(rec, reroll, blocked) ==
    IF Len(rec.participants) = 0 THEN {<<>>}
    ELSE
      LET count0 == Min(rec.winners, Len(rec.participants))
          prev == Range(rec.last_announced_winners)
          fresh == SeqMinus(rec.participants, prev)
          pop1 == IF reroll /\ rec.last_announced_winners # <<>> /\ fresh # <<>>
                  THEN fresh ELSE rec.participants
          pop2 == IF blocked # {} THEN SeqMinus(pop1, blocked) ELSE pop1
          count == Min(count0, Len(pop2))
      IN  IF count = 0 THEN {<<>>} ELSE Samples(pop2, count)

\* (mutant) the ledger is pruned by the cool-down window alone
record_recent_winners_cooldown_window(m, winners, g, n) ==
    IF winners = <<>> THEN m
    ELSE
      LET retention_cutoff == n - Days(m.recent_winner_cooldown_days)
          retained == SelectSeq(m.recent_winners,
                                LAMBDA e : e.won_at >= retention_cutoff)
          added == [i \in 1..Len(winners) |-> RecentWinner(winners[i], g, n)]
      IN  [m EXCEPT !.recent_winners = retained \o added]

\* _record_recent_winners (giveaway_manager.py 183-214)
record_recent_winners(m, winners, g, n) ==
    IF winners = <<>> THEN m
    ELSE
      LET retention_cutoff ==
              n - Days(Max(m.recent_winner_cooldown_days, RetentionDays))
          retained == SelectSeq(m.recent_winners,
                                LAMBDA e : e.won_at >= retention_cutoff)
          added == [i \in 1..Len(winners) |-> RecentWinner(winners[i], g, n)]
      IN  [m EXCEPT !.recent_winners = retained \o added]

----------------------------------------------------------------------------
(* Observer *)

\* what the running audit_overdue has listed and done so far
Audit0 ==
    [to_end |-> {}, to_finalize |-> {},  \* the two lists as scanned
     drawn |-> {},                        \* giveaways it drew winners for
     nochan |-> {},                       \* finalizations that found no channel
     skipped |-> {}]                      \* dropped by the re-check under the lock

Hist0 ==
    [flips |-> [g \in Ids |-> 0],       \* Active -> Finished flips of g
     endchan |-> [g \in Ids |-> 0],     \* end_giveaway finalizations that
                                         \* found the channel
     enddraws |-> [g \in Ids |-> 0],    \* draws by end_giveaway's finalization
     audit |-> Audit0,
     rerolls |-> 0,
     fires |-> <<>>,                     \* giveaways started by a schedule
     pstarts |-> [p \in Ids |-> 0],     \* giveaways started from a pending
     pgiveaway |-> [p \in Ids |-> 0],   \* the giveaway last started from
                                         \* pending p (0: none)
     unreachable |-> {},                 \* pending giveaways removed because
                                         \* their channel was not found
     tzepoch |-> 0,                      \* timezone changes so far
     snapshot |-> 0,                     \* tzepoch when the sweep last read
                                         \* the timezone
     watch |-> FALSE,                    \* whether refusals are noted
     refused |-> <<>>,                   \* the last call that raised or
                                         \* returned a refusal, as
                                         \* <<operation, why>>
     returned |-> <<>>]                  \* the last count returned, as
                                         \* <<operation, count>>

\* the observer after a call of `op` raised or returned the refusal `why`
Refused(h, op, why) ==
    IF h.watch THEN [h EXCEPT !.refused = <<op, why>>] ELSE h

\* the observer after a call of `op` returned the count `n`
Returned(h, op, n) ==
    IF h.watch THEN [h EXCEPT !.returned = <<op, n>>] ELSE h

Sweep0 ==
    [pc |-> "idle", i |-> 0, now_utc |-> 0, today |-> 0, tz |-> 0,
     end_dt |-> 0, to_end |-> <<>>, to_finalize |-> <<>>]

----------------------------------------------------------------------------
(* Giveaway lifecycle: commands *)

Texts == {<<"t1", "d1">>, <<"t2", "d2">>}

\* start_giveaway (giveaway_manager.py 407-463) when channel.send and
\* message.edit succeed: what it leaves in (mem, disk, tasks)
start_giveaway(m, ts, g, w, txt, e, sid, n) ==
    LET m1 == upsert_giveaway(m, g, Giveaway(w, txt[1], txt[2], e, sid))
    IN  [mem |-> m1, disk |-> Payload(m1),
         tasks |-> schedule_finish(ts, m1, g, FALSE, n)]

\* the create-immediate command: winners <= 0 is rejected
StartGiveaway(maxId, Ws, Es) ==
    /\ nextId <= maxId
    /\ \E w \in Ws, txt \in {<<"t1", "d1">>}, e \in Es :
         IF w <= 0                                  \* ValueError
         THEN /\ hist' = Refused(hist, "start_giveaway", "winners")
              /\ UNCHANGED <<now, config, mem, disk, tasks, sweep, nextId,
                             boot>>
         ELSE LET r == start_giveaway(mem, tasks, nextId, w, txt, e,
                                      NoSchedule, now)
              IN  /\ mem' = r.mem
                  /\ disk' = r.disk
                  /\ tasks' = r.tasks
                  /\ nextId' = nextId + 1
                  /\ UNCHANGED <<now, config, sweep, boot, hist>>

\* (mutant) only the membership of the user is looked at
participant_refusal_member_only(m, g, u, joining) ==
    IF ~get_giveaway(m, g) THEN "unavailable"
    ELSE IF joining = (u \in Range(m.giveaways[g].participants))
    THEN (IF joining THEN "joined" ELSE "absent")
    ELSE "none"

\* add_participant 532-537, remove_participant 552-557: the refusal the
\* call returns, "none" when it goes on
participant_refusal(m, g, u, joining) ==
    IF ~get_giveaway(m, g) THEN "unavailable"
    ELSE IF ~m.giveaways[g].is_active THEN "finished"
    ELSE IF joining = (u \in Range(m.giveaways[g].participants))
    THEN (IF joining THEN "joined" ELSE "absent")
    ELSE "none"

\* add_participant (giveaway_manager.py 528-546)
add_participant(g, u) ==
    /\ LET why == participant_refusal(mem, g, u, TRUE)
       IN  IF why # "none"
           THEN /\ hist' = Refused(hist, "add_participant", why)
                /\ UNCHANGED <<mem, disk>>
           ELSE /\ mem' = [mem EXCEPT
                             !.giveaways[g].participants = Append(@, u)]
                /\ disk' = Payload(mem')
                /\ hist' = hist
    /\ UNCHANGED <<now, config, tasks, sweep, nextId, boot>>

\* remove_participant (giveaway_manager.py 548-566)
remove_participant(g, u) ==
    /\ LET why == participant_refusal(mem, g, u, FALSE)
       IN  IF why # "none"
           THEN /\ hist' = Refused(hist, "remove_participant", why)
                /\ UNCHANGED <<mem, disk>>
           ELSE /\ mem' = [mem EXCEPT
                             !.giveaways[g].participants = SeqWithout(@, u)]
                /\ disk' = Payload(mem')
                /\ hist' = hist
    /\ UNCHANGED <<now, config, tasks, sweep, nextId, boot>>

----------------------------------------------------------------------------
(* end_giveaway and _finalize_giveaway *)

\* (mutant) the flip is not saved
end_giveaway_locked_unsaved(m, d, g) ==
    IF ~m.giveaways[g].is_active
    THEN [mem |-> m, disk |-> d, flipped |-> FALSE]
    ELSE [mem |-> [m EXCEPT !.giveaways[g].is_active = FALSE],
          disk |-> d, flipped |-> TRUE]

\* (mutant) no early return for a finished giveaway
end_giveaway_locked_again(m, d, g) ==
    LET m1 == [m EXCEPT !.giveaways[g].is_active = FALSE]
    IN  [mem |-> m1, disk |-> Payload(m1), flipped |-> TRUE]

\* the locked section of end_giveaway (giveaway_manager.py 468-475) on a
\* giveaway that is found: the new (mem, disk) and whether it flipped
end_giveaway_locked(m, d, g) ==
    IF ~m.giveaways[g].is_active
    THEN [mem |-> m, disk |-> d, flipped |-> FALSE]
    ELSE LET m1 == [m EXCEPT !.giveaways[g].is_active = FALSE]
         IN  [mem |-> m1, disk |-> Payload(m1), flipped |-> TRUE]

\* after the flip (477-481): the registry entry is popped, the popped task
\* is cancelled unless it is the caller, and _finalize_giveaway starts
end_giveaway_tasks(ts, g, caller, owner) ==
    ((ts \ caller) \ Registered(ts, "finish", g))
        \cup {Task("end", g, "channel", 0, FALSE, owner)}

\* end_giveaway(g) called by `caller` (a set: the calling timer task, or
\* empty for a command or the sweep)
end_giveaway(g, caller, owner) ==
    IF ~get_giveaway(mem, g)
    THEN /\ tasks' = tasks \ caller
         /\ UNCHANGED <<mem, disk, hist>>
    ELSE LET r == end_giveaway_locked(mem, disk, g)
         IN  /\ mem' = r.mem
             /\ disk' = r.disk
             /\ tasks' = IF r.flipped
                          THEN end_giveaway_tasks(tasks, g, caller, owner)
                          ELSE tasks \ caller
             /\ hist' = IF r.flipped
                         THEN [hist EXCEPT !.flips[g] = @ + 1]
                         ELSE hist

\* the end-now command
EndNow(g) ==
    /\ end_giveaway(g, {}, "task")
    /\ UNCHANGED <<now, config, sweep, nextId, boot>>

\* a finish waiter whose sleep is over (or the task made for delay <= 0)
FinishTimerFire(t) ==
    /\ t.kind = "finish"
    /\ now >= t.wake
    /\ end_giveaway(t.id, {t}, "task")
    /\ UNCHANGED <<now, config, sweep, nextId, boot>>

\* _finalize_giveaway, 485-492: the channel is fetched
FinChannel(t) ==
    /\ t.kind \in {"end", "auditfin"}
    /\ t.pc = "channel"
    /\ \/ /\ tasks' = (tasks \ {t}) \cup {[t EXCEPT !.pc = "draw"]}
          /\ hist' = IF t.kind = "end"
                      THEN [hist EXCEPT !.endchan[t.id] = @ + 1]
                      ELSE hist
       \/ /\ tasks' = tasks \ {t}       \* channel not found: return
          /\ hist' = IF t.kind = "end"
                      THEN hist
                      ELSE [hist EXCEPT !.audit.nochan = @ \cup {t.id}]
    /\ UNCHANGED <<now, config, mem, disk, sweep, nextId, boot>>

\* _finalize_giveaway, 494-495: winners are chosen and recorded on the
\* giveaway object
FinDraw(t) ==
    /\ t.kind \in {"end", "auditfin"}
    /\ t.pc = "draw"
    /\ LET rec == mem.giveaways[t.id]
           b == IF Len(rec.participants) = 0
                THEN [mem |-> mem, needs_save |-> FALSE, blocked |-> {}]
                ELSE get_recent_winner_blocklist(mem, now)
       IN  \E w \in choose_winners(rec, FALSE, b.blocked) :
             IF b.needs_save
             THEN \* 178-179: the call waits for save_state before it
                  \* samples; the sample does not depend on what changes
                  \* meanwhile, so it is fixed here and handed over later
                  /\ mem' = b.mem
                  /\ disk' = Payload(b.mem)
                  /\ tasks' = (tasks \ {t})
                                \cup {[t EXCEPT !.pc = "drawn", !.w = w]}
             ELSE /\ mem' = [b.mem EXCEPT
                               !.giveaways[t.id].last_announced_winners = w]
                  /\ disk' = disk
                  /\ tasks' = (tasks \ {t})
                                \cup {[t EXCEPT !.pc = "record", !.w = w]}
    /\ hist' = IF t.kind = "end"
               THEN [hist EXCEPT !.enddraws[t.id] = @ + 1]
               ELSE [hist EXCEPT !.audit.drawn = @ \cup {t.id}]
    /\ UNCHANGED <<now, config, sweep, nextId, boot>>

\* _finalize_giveaway, 494-495, after a _choose_winners call that waited
\* for save_state: the winners are recorded on the giveaway object
FinDrawn(t) ==
    /\ t.kind \in {"end", "auditfin"}
    /\ t.pc = "drawn"
    /\ mem' = [mem EXCEPT !.giveaways[t.id].last_announced_winners = t.w]
    /\ tasks' = (tasks \ {t}) \cup {[t EXCEPT !.pc = "record"]}
    /\ UNCHANGED <<now, config, disk, sweep, nextId, boot, hist>>

\* _finalize_giveaway, 497-515, as a function of the state
finalize_record(m, g, w, n) ==
    LET m1 == IF w = <<>>
              THEN [m EXCEPT !.giveaways[g].participants = <<>>]
              ELSE m
    IN  record_recent_winners(m1, w, g, n)

\* _finalize_giveaway, 497-526: announce, clear the participants when
\* nobody won, record the winners in the ledger, save
FinRecord(t) ==
    /\ t.kind \in {"end", "auditfin"}
    /\ t.pc = "record"
    /\ mem' = finalize_record(mem, t.id, t.w, now)
    /\ disk' = Payload(mem')
    /\ tasks' = tasks \ {t}
    /\ UNCHANGED <<now, config, sweep, nextId, boot, hist>>

\* (mutant) the winners argument is not validated
update_rejects_nothing(winners) == FALSE

\* update_giveaway, 679-681: the winners given are not positive
update_rejects(winners) == winners # <<>> /\ winners[1] <= 0

\* update_giveaway (giveaway_manager.py 664-699); an optional argument is
\* <<>> (None) or <<value>>
update_giveaway(g, winners, title, description, end_time) ==
    /\ get_giveaway(mem, g)
    /\ IF update_rejects(winners)
       THEN /\ hist' = Refused(hist, "update_giveaway", "winners")
            /\ UNCHANGED <<mem, disk, tasks>>   \* ValueError
       ELSE /\ mem' = [mem EXCEPT
                         !.giveaways[g].winners =
                             IF winners # <<>> THEN winners[1] ELSE @,
                         !.giveaways[g].title =
                             IF title # <<>> THEN title[1] ELSE @,
                         !.giveaways[g].description =
                             IF description # <<>> THEN description[1] ELSE @,
                         !.giveaways[g].end_time =
                             IF end_time # <<>> THEN end_time[1] ELSE @]
            /\ disk' = Payload(mem')
            /\ tasks' = IF end_time # <<>>
                         THEN schedule_finish(tasks, mem', g, TRUE, now)
                         ELSE tasks
            /\ hist' = hist
    /\ UNCHANGED <<now, config, sweep, nextId, boot>>

\* cleanup_finished (giveaway_manager.py 578-612): the giveaways it removes
cleanup_removed(m, n) ==
    LET cooldown_days == Max(m.recent_winner_cooldown_days, 0)
    IN  {g \in Listed(m) :
           /\ ~m.giveaways[g].is_active
           /\ ~(cooldown_days > 0
                 /\ m.giveaways[g].end_time >= n - Days(cooldown_days))}

cleanup_finished ==
    LET removed == cleanup_removed(mem, now)
    IN  /\ IF removed = {}
           THEN UNCHANGED <<mem, disk, tasks>>           \* return 0
           ELSE /\ mem' = [mem EXCEPT !.giveaways =
                             [g \in DOMAIN @ |->
                                IF g \in removed
                                THEN [@[g] EXCEPT !.listed = FALSE]
                                ELSE @[g]]]
                /\ disk' = Payload(mem')
                /\ tasks' = {t \in tasks :
                               ~(t.kind = "finish" /\ t.reg
                                   /\ t.id \in removed)}
        /\ hist' = Returned(hist, "cleanup_finished", Cardinality(removed))
        /\ UNCHANGED <<now, config, sweep, nextId, boot>>

\* (mutant) an active giveaway is rerolled like a finished one
reroll_rejects_nothing(m, g) == FALSE

\* reroll, 707-708: the giveaway is still active
reroll_rejects(m, g) == m.giveaways[g].is_active

\* reroll (giveaway_manager.py 701-732), first part: the check under the
\* lock and the draw
RerollStart(g, maxRerolls) ==
    /\ hist.rerolls < maxRerolls
    /\ get_giveaway(mem, g)
    /\ IF reroll_rejects(mem, g)
       THEN /\ hist' = Refused(hist, "reroll", "active")   \* RuntimeError
            /\ UNCHANGED <<mem, disk, tasks>>
       ELSE LET rec == mem.giveaways[g]
                b == IF Len(rec.participants) = 0
                     THEN [mem |-> mem, needs_save |-> FALSE, blocked |-> {}]
                     ELSE get_recent_winner_blocklist(mem, now)
            IN  \E w \in choose_winners(rec, TRUE, b.blocked) :
                  /\ mem' = b.mem
                  /\ disk' = IF b.needs_save THEN Payload(b.mem) ELSE disk
                  /\ tasks' = tasks \cup
                       {[Task("reroll", g, "record", 0, FALSE, "task")
                           EXCEPT !.w = w]}
                  /\ hist' = [hist EXCEPT !.rerolls = @ + 1]
    /\ UNCHANGED <<now, config, sweep, nextId, boot>>

\* reroll, 712: _record_recent_winners
RerollRecord(t) ==
    /\ t.kind = "reroll"
    /\ t.pc = "record"
    /\ mem' = record_recent_winners(mem, t.w, t.id, now)
    /\ disk' = IF t.w = <<>> THEN disk ELSE Payload(mem')
    /\ tasks' = (tasks \ {t}) \cup {[t EXCEPT !.pc = "set"]}
    /\ UNCHANGED <<now, config, sweep, nextId, boot, hist>>

\* reroll, 714-719: the winners are stored on the giveaway
RerollSet(t) ==
    /\ t.kind = "reroll"
    /\ t.pc = "set"
    /\ IF get_giveaway(mem, t.id)
       THEN /\ mem' = [mem EXCEPT
                         !.giveaways[t.id].last_announced_winners = t.w]
            /\ disk' = Payload(mem')
       ELSE UNCHANGED <<mem, disk>>
    /\ tasks' = tasks \ {t}
    /\ UNCHANGED <<now, config, sweep, nextId, boot, hist>>

----------------------------------------------------------------------------
(* Local time.  A timezone is a name; a name other than the two below is  *)
(* a zone with that fixed offset from UTC, in ticks.  SpringZone and       *)
(* FallZone change their offset once, at the UTC instant DstAt: the clock  *)
(* of SpringZone is put forward by one tick, that of FallZone back by two. *)
(* A local date is a day number, a time of day a tick within the day.      *)

SpringZone == 10
FallZone == 11
DstAt == 4

\* the offsets of zone tz before and from DstAt
ZoneRule(tz) ==
    IF tz = SpringZone THEN [before |-> 0, after |-> 1]
    ELSE IF tz = FallZone THEN [before |-> 2, after |-> 0]
    ELSE [before |-> tz, after |-> tz]

\* instant.astimezone(tz): the wall clock of tz at UTC instant n
ToWall(tz, n) ==
    n + (IF n < DstAt THEN ZoneRule(tz).before ELSE ZoneRule(tz).after)

\* local.astimezone(UTC) for a wall time built with fold = 0: a wall time
\* that occurs twice is the first occurrence, one that is skipped is read
\* with the offset before the change (zoneinfo)
FromWall(tz, w) ==
    LET z == ZoneRule(tz)
    IN  w - (IF w < DstAt + Max(z.before, z.after) THEN z.before ELSE z.after)

LocalDate(n, tz) == ToWall(tz, n) \div TicksPerDay
LocalTime(n, tz) == ToWall(tz, n) % TicksPerDay

\* datetime.combine(date, time_of_day, tzinfo=tz), as a local instant
Combine(date, tod) == date * TicksPerDay + tod

\* _compute_next_window (giveaway_manager.py 907-925): <<start, end>> in UTC
compute_next_window(tz, start_time, end_time, reference) ==
    LET reference_local == ToWall(tz, reference)
        s0 == Combine(reference_local \div TicksPerDay, start_time)
        start_local == IF s0 <= reference_local THEN s0 + TicksPerDay ELSE s0
        e0 == Combine(start_local \div TicksPerDay, end_time)
        end_local == IF e0 <= start_local THEN e0 + TicksPerDay ELSE e0
    IN  <<FromWall(tz, start_local), FromWall(tz, end_local)>>

\* a giveaway started by a schedule, for the record: the local date and
\* time of day the schedule saw, and the window's end
Fire(sid, g, e, date, tod, start_time, since) ==
    [sid |-> sid, id |-> g, end_time |-> e, at |-> now, date |-> date,
     tod |-> tod, start_time |-> start_time, since |-> since,
     epoch |-> hist.tzepoch, boot |-> boot]

----------------------------------------------------------------------------
(* Runner tasks of pending and recurring giveaways.  kind "start": the     *)
(* runner of _schedule_start; kind "recurring": the runner of              *)
(* _schedule_recurring.  pc "exit": the runner has returned from an await  *)
(* on the network and is at its finally clause.  A cancelled runner gets   *)
(* CancelledError on the next pass of the event loop, before any network   *)
(* or disk wait can end: its finally clause is taken as part of the action *)
(* that cancels it.                                                        *)

\* runner's finally: registry.pop(id, None), whichever task is recorded
PopRegistry(ts, kind, id) ==
    {IF u.kind = kind /\ u.id = id /\ u.reg THEN [u EXCEPT !.reg = FALSE]
     ELSE u : u \in ts}

\* the finally clause of both runners (903-904, 949-950)
RunnerExit(t) ==
    /\ t.kind \in {"start", "recurring"}
    /\ t.pc = "exit"
    /\ tasks' = PopRegistry(tasks \ {t}, t.kind, t.id)
    /\ UNCHANGED <<now, config, mem, disk, sweep, nextId, boot, hist>>

\* `task`, a new runner, is recorded in the registry after the recorded
\* one was cancelled (`reschedule`), with no suspension in between: the
\* cancelled runner's finally clause then pops the new entry
Reschedule(ts, task, reschedule) ==
    LET cancelled == IF reschedule THEN Registered(ts, task.kind, task.id)
                     ELSE {}
    IN  Register(ts \ cancelled, [task EXCEPT !.reg = (cancelled = {})])

\* registry.pop(id) and task.cancel() with nothing recorded afterwards
\* before the next suspension: the cancelled runner's finally clause finds
\* no entry
PopAndCancel(ts, kind, id) == ts \ Registered(ts, kind, id)

----------------------------------------------------------------------------
(* Pending giveaways (giveaway_manager.py 309-348, 885-905, 1149-1202)     *)

PendingGiveaway(w, txt, s0, e) ==
    [winners |-> w, title |-> txt[1], description |-> txt[2],
     start_time |-> s0, end_time |-> e]

get_pending(m, p) == p \in DOMAIN m.pending_giveaways

upsert_pending(m, p, rec) ==
    [m EXCEPT !.pending_giveaways = (p :> rec) @@ @]

remove_pending(m, p) ==
    [m EXCEPT !.pending_giveaways =
        [q \in DOMAIN @ \ {p} |-> @[q]]]

\* _schedule_start (885-905): the runner computes its delay when it first
\* runs, so it sleeps until start_time
schedule_start(ts, m, p, reschedule) ==
    Reschedule(ts, Task("start", p, "sleep",
                        m.pending_giveaways[p].start_time, TRUE, "task"),
               reschedule)

\* the create-deferred command, schedule_manual_giveaway (309-348)
schedule_manual_giveaway(maxId, Ws, Ss, Es) ==
    /\ nextId <= maxId
    /\ \E w \in Ws, s0 \in Ss, e \in Es :
         IF w <= 0 \/ e <= s0                       \* ValueError
         THEN /\ hist' = Refused(hist, "schedule_manual_giveaway",
                                 IF w <= 0 THEN "winners" ELSE "end_time")
              /\ UNCHANGED <<now, config, mem, disk, tasks, sweep, nextId,
                             boot>>
         ELSE LET m1 == upsert_pending(mem, nextId,
                           PendingGiveaway(w, <<"t2", "d2">>, s0, e))
              IN  /\ mem' = m1
                  /\ disk' = Payload(m1)
                  /\ tasks' = schedule_start(tasks, m1, nextId, TRUE)
                  /\ nextId' = nextId + 1
                  /\ UNCHANGED <<now, config, sweep, boot, hist>>

\* the runner's sleep is over: _start_pending_giveaway, 1150-1153
PendingFire(t) ==
    /\ t.kind = "start"
    /\ t.pc = "sleep"
    /\ now >= t.wake
    /\ tasks' =
         IF get_pending(mem, t.id)
         THEN (tasks \ {t}) \cup
                {[t EXCEPT !.pc = "channel", !.w = mem.pending_giveaways[t.id]]}
         ELSE PopRegistry(tasks \ {t}, "start", t.id)
    /\ UNCHANGED <<now, config, mem, disk, sweep, nextId, boot, hist>>

\* (mutant) the pending record stays and its runner sleeps again
drop_pending_retry(t) ==
    /\ UNCHANGED <<mem, disk>>
    /\ tasks' = (tasks \ {t}) \cup {[t EXCEPT !.pc = "sleep"]}

\* the pending record is removed and, if it was there, the state saved
\* (1161-1164, 1180-1183, 1192-1195)
drop_pending(t) ==
    /\ mem' = remove_pending(mem, t.id)
    /\ disk' = IF get_pending(mem, t.id) THEN Payload(mem') ELSE disk
    /\ tasks' = (tasks \ {t}) \cup {[t EXCEPT !.pc = "exit"]}

\* _start_pending_giveaway, 1155-1170: the channel is fetched; when it is
\* not there the pending giveaway is removed
PendingChannel(t) ==
    /\ t.kind = "start"
    /\ t.pc = "channel"
    /\ \/ /\ tasks' = (tasks \ {t}) \cup {[t EXCEPT !.pc = "start"]}
          /\ UNCHANGED <<mem, disk, hist>>
       \/ /\ drop_pending(t)
          /\ hist' = [hist EXCEPT !.unreachable = @ \cup {t.id}]
    /\ UNCHANGED <<now, config, sweep, nextId, boot>>

\* _start_pending_giveaway, 1172-1190: start_giveaway with the pending
\* giveaway's fields; when it raises (channel.send fails) the pending
\* giveaway is removed
PendingStart(t, maxId) ==
    /\ t.kind = "start"
    /\ t.pc = "start"
    /\ \/ /\ nextId <= maxId
          /\ LET r == start_giveaway(mem, tasks \ {t}, nextId, t.w.winners,
                                     <<t.w.title, t.w.description>>,
                                     t.w.end_time, NoSchedule, now)
             IN  /\ mem' = r.mem
                 /\ disk' = r.disk
                 /\ tasks' = r.tasks \cup {[t EXCEPT !.pc = "remove"]}
          /\ nextId' = nextId + 1
          /\ hist' = [hist EXCEPT !.pstarts[t.id] = @ + 1,
                                   !.pgiveaway[t.id] = nextId]
       \/ /\ drop_pending(t)
          /\ UNCHANGED <<nextId, hist>>
    /\ UNCHANGED <<now, config, sweep, boot>>

\* _start_pending_giveaway, 1192-1195
PendingRemove(t) ==
    /\ t.kind = "start"
    /\ t.pc = "remove"
    /\ drop_pending(t)
    /\ UNCHANGED <<now, config, sweep, nextId, boot, hist>>

----------------------------------------------------------------------------
(* Recurring giveaways (giveaway_manager.py 350-405, 927-1016, 1045-1070,  *)
(* 1109-1147)                                                              *)

RecurringGiveaway(w, txt, st, et, ns, ne) ==
    [winners |-> w, title |-> txt[1], description |-> txt[2],
     start_time |-> st, end_time |-> et, next_start |-> ns, next_end |-> ne,
     enabled |-> TRUE]

get_recurring(m, r) == r \in DOMAIN m.recurring_giveaways

upsert_recurring(m, r, rec) ==
    [m EXCEPT !.recurring_giveaways = (r :> rec) @@ @]

\* the window of recurring giveaway r counted from instant n
next_window(m, r, n) ==
    compute_next_window(m.timezone, m.recurring_giveaways[r].start_time,
                        m.recurring_giveaways[r].end_time, n)

set_window(m, r, win) ==
    [m EXCEPT !.recurring_giveaways[r].next_start = win[1],
              !.recurring_giveaways[r].next_end = win[2]]

\* _schedule_recurring (927-952)
schedule_recurring(ts, m, r, reschedule, n) ==
    IF ~m.recurring_giveaways[r].enabled
    THEN IF reschedule THEN PopAndCancel(ts, "recurring", r) ELSE ts
    ELSE Reschedule(ts, Task("recurring", r, "sleep",
                             Max(m.recurring_giveaways[r].next_start, n),
                             TRUE, "task"),
                    reschedule)

\* the create-recurring command, schedule_recurring_giveaway (350-405), for
\* a first window [start_local, end_local) given as UTC instants
schedule_recurring_giveaway(maxId, Ws, Ss, Es, Imm) ==
    /\ nextId <= maxId
    /\ \E w \in Ws, s0 \in Ss, e \in Es, immediate_started \in Imm :
         /\ s0 < e
         /\ LET tz == mem.timezone
                st == LocalTime(s0, tz)
                et == LocalTime(e, tz)
                win == IF immediate_started
                       THEN compute_next_window(tz, st, et, s0)
                       ELSE IF s0 <= now
                            THEN compute_next_window(tz, st, et, now)
                            ELSE <<s0, e>>
                m1 == upsert_recurring(mem, nextId,
                         RecurringGiveaway(w, <<"t2", "d2">>, st, et,
                                           win[1], win[2]))
            IN  /\ mem' = m1
                /\ disk' = Payload(m1)
                /\ tasks' = schedule_recurring(tasks, m1, nextId, TRUE, now)
    /\ nextId' = nextId + 1
    /\ UNCHANGED <<now, config, sweep, boot, hist>>

\* disable_recurring (1109-1125) as the state it leaves
disable_recurring_state(m, d, ts, r) ==
    IF ~get_recurring(m, r) \/ ~m.recurring_giveaways[r].enabled
    THEN [mem |-> m, disk |-> d, tasks |-> ts]
    ELSE LET m1 == [m EXCEPT !.recurring_giveaways[r].enabled = FALSE]
         IN  [mem |-> m1, disk |-> Payload(m1),
              tasks |-> PopAndCancel(ts, "recurring", r)]

\* the disable-recurring command
disable_recurring(r) ==
    /\ LET x == disable_recurring_state(mem, disk, tasks, r)
       IN  mem' = x.mem /\ disk' = x.disk /\ tasks' = x.tasks
    /\ UNCHANGED <<now, config, sweep, nextId, boot, hist>>

\* the enable-recurring command (1127-1147)
enable_recurring(r) ==
    /\ IF ~get_recurring(mem, r) \/ mem.recurring_giveaways[r].enabled
       THEN UNCHANGED <<mem, disk, tasks>>
       ELSE LET m1 == set_window(
                        [mem EXCEPT !.recurring_giveaways[r].enabled = TRUE],
                        r, next_window(mem, r, now))
            IN  /\ mem' = m1
                /\ disk' = Payload(m1)
                /\ tasks' = schedule_recurring(tasks, m1, r, TRUE, now)
    /\ UNCHANGED <<now, config, sweep, nextId, boot, hist>>

\* the runner's sleep is over: _run_recurring, 955-958
RecurringFire(t) ==
    /\ t.kind = "recurring"
    /\ t.pc = "sleep"
    /\ now >= t.wake
    /\ tasks' =
         IF get_recurring(mem, t.id) /\ mem.recurring_giveaways[t.id].enabled
         THEN (tasks \ {t}) \cup {[t EXCEPT !.pc = "channel"]}
         ELSE PopRegistry(tasks \ {t}, "recurring", t.id)
    /\ UNCHANGED <<now, config, mem, disk, sweep, nextId, boot, hist>>

\* _run_recurring, 960-968: the channel is fetched; when it is not there
\* the schedule is disabled.  A runner that is the recorded one cancels
\* itself there (1118-1120) just before save_state (1121): the write handed
\* to the worker thread (storage.py 60-64) is then cancelled unless the
\* thread has already taken it
RecurringChannel(t) ==
    /\ t.kind = "recurring"
    /\ t.pc = "channel"
    /\ \/ /\ tasks' = (tasks \ {t}) \cup {[t EXCEPT !.pc = "start"]}
          /\ UNCHANGED <<mem, disk>>
       \/ LET x == disable_recurring_state(mem, disk, tasks, t.id)
          IN  /\ mem' = x.mem
              /\ disk' \in IF t.reg THEN {x.disk, disk} ELSE {x.disk}
              /\ tasks' = {IF u = t THEN [u EXCEPT !.pc = "exit"] ELSE u :
                             u \in x.tasks}
    /\ UNCHANGED <<now, config, sweep, nextId, boot, hist>>

\* (mutant) the next window is stored but no runner is scheduled for it
recurring_reschedule_unarmed(t, failed) ==
    LET m1 == IF get_recurring(mem, t.id)
              THEN set_window(mem, t.id, next_window(mem, t.id, now))
              ELSE mem
    IN  [mem |-> m1,
         disk |-> IF get_recurring(mem, t.id) THEN Payload(m1) ELSE disk,
         tasks |-> IF failed THEN tasks \ {t}
                   ELSE (tasks \ {t}) \cup {[t EXCEPT !.pc = "exit"]}]

\* the next window is stored and the next runner scheduled (985-998,
\* 1001-1013): what it leaves in (mem, disk, tasks).  After a failed start
\* (`failed`) _schedule_recurring is called only for an enabled schedule
\* and the runner returns at once, so its finally clause pops the entry
\* just recorded; after a start it goes on to await _notify_logger
recurring_reschedule(t, failed) ==
    LET me == [t EXCEPT !.pc = "exit"]
        ts == (tasks \ {t}) \cup {me}
        m1 == IF get_recurring(mem, t.id)
              THEN set_window(mem, t.id, next_window(mem, t.id, now))
              ELSE mem
        ts1 == IF ~get_recurring(mem, t.id)
                  \/ (failed /\ ~m1.recurring_giveaways[t.id].enabled)
               THEN ts
               ELSE schedule_recurring(ts, m1, t.id, TRUE, now)
    IN  [mem |-> m1,
         disk |-> IF get_recurring(mem, t.id) THEN Payload(m1) ELSE disk,
         tasks |-> IF failed THEN PopRegistry(ts1 \ {me}, "recurring", t.id)
                   ELSE ts1]

\* _run_recurring, 970-999: start_giveaway for the window; when it raises
\* (channel.send fails) only the next window is computed
RecurringStart(t, maxId) ==
    /\ t.kind = "recurring"
    /\ t.pc = "start"
    /\ \/ /\ nextId <= maxId
          /\ LET rec == mem.recurring_giveaways[t.id]
                 r == start_giveaway(mem, tasks \ {t}, nextId, rec.winners,
                                     <<rec.title, rec.description>>,
                                     rec.next_end, RecId(t.id), now)
             IN  /\ mem' = r.mem
                 /\ disk' = r.disk
                 /\ tasks' = r.tasks \cup {[t EXCEPT !.pc = "next"]}
                 /\ hist' = [hist EXCEPT !.fires =
                       Append(@, Fire(RecId(t.id), nextId, rec.next_end,
                                      LocalDate(now, mem.timezone),
                                      LocalTime(now, mem.timezone),
                                      rec.start_time, hist.tzepoch))]
          /\ nextId' = nextId + 1
       \/ /\ LET x == recurring_reschedule(t, TRUE)
             IN  mem' = x.mem /\ disk' = x.disk /\ tasks' = x.tasks
          /\ UNCHANGED <<nextId, hist>>
    /\ UNCHANGED <<now, config, sweep, boot>>

\* _run_recurring, 1001-1013: the next window, then _schedule_recurring
RecurringNext(t) ==
    /\ t.kind = "recurring"
    /\ t.pc = "next"
    /\ LET x == recurring_reschedule(t, FALSE)
       IN  mem' = x.mem /\ disk' = x.disk /\ tasks' = x.tasks
    /\ UNCHANGED <<now, config, sweep, nextId, boot, hist>>

\* the set-timezone command (1045-1070); a name that is no timezone is
\* rejected
Timezones == {0, 2, SpringZone, FallZone}

set_timezone_state(m, ts, tz, n) ==
    LET m0 == [m EXCEPT !.timezone = tz]
        m1 == [m0 EXCEPT !.recurring_giveaways =
                 [r \in DOMAIN @ |->
                    [@[r] EXCEPT
                       !.next_start = next_window(m0, r, n)[1],
                       !.next_end = next_window(m0, r, n)[2]]]]
        ts1 == {t \in ts : ~(t.kind = "recurring" /\ t.reg)}
        new == {Task("recurring", r, "sleep",
                     Max(m1.recurring_giveaways[r].next_start, n), TRUE, "task") :
                  r \in {x \in DOMAIN m1.recurring_giveaways :
                           m1.recurring_giveaways[x].enabled}}
    IN  [mem |-> m1, tasks |-> ts1 \cup new]

set_timezone(tz, maxChanges) ==
    /\ hist.tzepoch < maxChanges
    /\ IF tz \notin Timezones                       \* ValueError
       THEN /\ hist' = Refused(hist, "set_timezone", "name")
            /\ UNCHANGED <<mem, disk, tasks>>
       ELSE IF mem.timezone = tz
       THEN UNCHANGED <<mem, disk, tasks, hist>>
       ELSE LET x == set_timezone_state(mem, tasks, tz, now)
            IN  /\ mem' = x.mem
                /\ disk' = Payload(x.mem)
                /\ tasks' = x.tasks
                /\ hist' = [hist EXCEPT !.tzepoch = @ + 1]
    /\ UNCHANGED <<now, config, sweep, nextId, boot>>

\* set_recent_winner_cooldown_days (giveaway_manager.py 1072-1080)
set_recent_winner_cooldown_days(days) ==
    /\ IF days < 0                                  \* ValueError
       THEN /\ hist' = Refused(hist, "set_recent_winner_cooldown_days",
                               "days")
            /\ UNCHANGED <<mem, disk>>
       ELSE IF mem.recent_winner_cooldown_days = days
       THEN UNCHANGED <<mem, disk, hist>>
       ELSE /\ mem' = [mem EXCEPT !.recent_winner_cooldown_days = days]
            /\ disk' = Payload(mem')
            /\ hist' = hist
    /\ UNCHANGED <<now, config, tasks, sweep, nextId, boot>>

----------------------------------------------------------------------------
(* Configuration schedules: handle_scheduled and _maybe_start_schedule     *)
(* (giveaway_manager.py 740-836)                                           *)

ScheduledGiveawayConfig(k, enabled, channel_id, st, et) ==
    [id |-> CfgId(k), enabled |-> enabled, channel_id |-> channel_id,
     winners |-> 1, title |-> "t1", description |-> "d1",
     start_time |-> st, end_time |-> et]

\* the sweep goes on to the next configured schedule
HsContinue ==
    [Sweep0 EXCEPT !.pc = "hs", !.i = sweep.i + 1, !.now_utc = sweep.now_utc]

\* handle_scheduled, 746-764: the next schedule of the list and its channel
HsNext ==
    /\ sweep.pc = "hs"
    /\ IF sweep.i > Len(config.giveaways)
       THEN sweep' = [Sweep0 EXCEPT !.pc = "audit"]
       ELSE LET schedule == config.giveaways[sweep.i]
            IN  IF ~schedule.enabled \/ schedule.channel_id = 0
                THEN sweep' = HsContinue
                ELSE \/ sweep' = [sweep EXCEPT !.pc = "hs_snapshot"]
                     \/ sweep' = HsContinue       \* channel not found
    /\ UNCHANGED <<now, config, mem, disk, tasks, nextId, boot, hist>>

\* handle_scheduled, 766-776 and _maybe_start_schedule, 798-807: the
\* timezone, the local date of the sweep's clock reading, the snapshot of
\* schedule_runs, and the checks made on them
HsSnapshot ==
    /\ sweep.pc = "hs_snapshot"
    /\ LET schedule == config.giveaways[sweep.i]
           tz == mem.timezone
           now_local == ToWall(tz, sweep.now_utc)
           today == now_local \div TicksPerDay
           start_dt == Combine(today, schedule.start_time)
           e0 == Combine(today, schedule.end_time)
           end_dt == IF e0 <= start_dt THEN e0 + TicksPerDay ELSE e0
           fired_today == /\ schedule.id \in DOMAIN mem.schedule_runs
                          /\ mem.schedule_runs[schedule.id] = today
       IN  IF ~mem.auto_enabled \/ fired_today \/ now_local < start_dt
           THEN sweep' = HsContinue
           ELSE sweep' = [sweep EXCEPT !.pc = "hs_active", !.today = today,
                                         !.tz = tz, !.end_dt = end_dt]
    /\ hist' = [hist EXCEPT !.snapshot = hist.tzepoch]
    /\ UNCHANGED <<now, config, mem, disk, tasks, nextId, boot>>

\* _maybe_start_schedule, 809-816: an active giveaway of this schedule
HsCheckActive ==
    /\ sweep.pc = "hs_active"
    /\ sweep' =
         IF \E g \in list_active(mem) :
              mem.giveaways[g].scheduled_id = config.giveaways[sweep.i].id
         THEN HsContinue
         ELSE [sweep EXCEPT !.pc = "hs_start"]
    /\ UNCHANGED <<now, config, mem, disk, tasks, nextId, boot, hist>>

\* _maybe_start_schedule, 818-826: start_giveaway
HsStart(maxId) ==
    /\ sweep.pc = "hs_start"
    /\ nextId <= maxId
    /\ LET schedule == config.giveaways[sweep.i]
           e == FromWall(sweep.tz, sweep.end_dt)
           r == start_giveaway(mem, tasks, nextId, schedule.winners,
                               <<schedule.title, schedule.description>>,
                               e, schedule.id, now)
       IN  /\ mem' = r.mem
           /\ disk' = r.disk
           /\ tasks' = r.tasks
           /\ hist' = [hist EXCEPT !.fires =
                 Append(@, Fire(schedule.id, nextId, e, sweep.today,
                                (sweep.now_utc + sweep.tz) % TicksPerDay,
                                schedule.start_time, hist.snapshot))]
    /\ nextId' = nextId + 1
    /\ sweep' = [sweep EXCEPT !.pc = "hs_mark"]
    /\ UNCHANGED <<now, config, boot>>

\* (mutant) the date is not recorded
mark_schedule_run_skipped(m, sid, today) == m

\* the marker as _maybe_start_schedule writes it (828-831)
mark_schedule_run(m, sid, today) ==
    [m EXCEPT !.schedule_runs = (sid :> today) @@ @]

\* _maybe_start_schedule, 828-831: today's date is recorded and saved
HsMark ==
    /\ sweep.pc = "hs_mark"
    /\ mem' = mark_schedule_run(mem, config.giveaways[sweep.i].id, sweep.today)
    /\ disk' = Payload(mem')
    /\ sweep' = HsContinue
    /\ UNCHANGED <<now, config, tasks, nextId, boot, hist>>

----------------------------------------------------------------------------
(* The periodic sweep (bot.py 201-215): handle_scheduled, then            *)
(* audit_overdue                                                           *)

\* (mutant) the audit takes a giveaway only after its end instant
audit_to_end_late(m, n) ==
    SortedSeq({g \in Listed(m) :
                 m.giveaways[g].end_time < n /\ m.giveaways[g].is_active})

\* (mutant) a Finished giveaway is listed whether or not it has winners
audit_to_finalize_again(m, n) ==
    SortedSeq({g \in Listed(m) :
                 /\ m.giveaways[g].end_time <= n
                 /\ ~m.giveaways[g].is_active
                 /\ Len(m.giveaways[g].participants) > 0})

\* audit_overdue, 1023-1033: the two lists built under the lock
audit_to_end(m, n) ==
    SortedSeq({g \in Listed(m) :
                 m.giveaways[g].end_time <= n /\ m.giveaways[g].is_active})

audit_to_finalize(m, n) ==
    SortedSeq({g \in Listed(m) :
                 /\ m.giveaways[g].end_time <= n
                 /\ ~m.giveaways[g].is_active
                 /\ m.giveaways[g].last_announced_winners = <<>>
                 /\ Len(m.giveaways[g].participants) > 0})

AuditScan ==
    /\ sweep.pc = "audit"
    /\ sweep' = [sweep EXCEPT !.pc = "audit_end",
                               !.to_end = audit_to_end(mem, now),
                               !.to_finalize = audit_to_finalize(mem, now)]
    /\ hist' = [hist EXCEPT
                  !.audit = [Audit0 EXCEPT
                               !.to_end = Range(sweep'.to_end),
                               !.to_finalize = Range(sweep'.to_finalize)]]
    /\ UNCHANGED <<now, config, mem, disk, tasks, nextId, boot>>

\* audit_overdue, 1035-1036: end_giveaway on the next overdue giveaway
AuditEnd ==
    /\ sweep.pc = "audit_end"
    /\ \A t \in tasks : t.owner # "sweep"
    /\ IF sweep.to_end = <<>>
       THEN /\ sweep' = [sweep EXCEPT !.pc = "audit_fin"]
            /\ UNCHANGED <<mem, disk, tasks, hist>>
       ELSE /\ end_giveaway(Head(sweep.to_end), {}, "sweep")
            /\ sweep' = [sweep EXCEPT !.to_end = Tail(@)]
    /\ UNCHANGED <<now, config, nextId, boot>>

\* audit_overdue, 1038-1043: the re-check under the lock, then
\* _finalize_giveaway
AuditFin ==
    /\ sweep.pc = "audit_fin"
    /\ \A t \in tasks : t.owner # "sweep"
    /\ IF sweep.to_finalize = <<>>
       THEN /\ sweep' = Sweep0
            /\ hist' = [hist EXCEPT !.audit = Audit0]
            /\ UNCHANGED tasks
       ELSE LET g == Head(sweep.to_finalize)
            IN  /\ sweep' = [sweep EXCEPT !.to_finalize = Tail(@)]
                /\ IF get_giveaway(mem, g)
                      /\ mem.giveaways[g].last_announced_winners = <<>>
                   THEN /\ tasks' = tasks \cup
                             {Task("auditfin", g, "channel", 0, FALSE, "sweep")}
                        /\ UNCHANGED hist
                   ELSE /\ hist' = [hist EXCEPT !.audit.skipped = @ \cup {g}]
                        /\ UNCHANGED tasks
    /\ UNCHANGED <<now, config, mem, disk, nextId, boot>>

\* one run of _scheduled_checker begins: handle_scheduled, 741-744
SweepStart ==
    /\ sweep.pc = "idle"
    /\ sweep' = IF config.auto_enabled
                THEN [sweep EXCEPT !.pc = "hs", !.i = 1, !.now_utc = now]
                ELSE [sweep EXCEPT !.pc = "audit"]
    /\ UNCHANGED <<now, config, mem, disk, tasks, nextId, boot, hist>>

----------------------------------------------------------------------------
(* Startup: GiveawayManager.load (giveaway_manager.py 43-124)              *)

\* load, 43-87: the persisted state as normalised, and whether it is saved.
\* A configuration written without permissions has no default admin roles
load_state(d, cfg, n) ==
    LET auto == cfg.auto_enabled /\ d.auto_enabled
        default_admin_roles == IF "admin_roles" \in DOMAIN cfg
                               THEN cfg.admin_roles ELSE <<>>
        roles == IF d.admin_roles = <<>> /\ default_admin_roles # <<>>
                 THEN default_admin_roles                        \* 61-63
                 ELSE d.admin_roles
        days == IF d.recent_winner_cooldown_days < 0 THEN 0
                ELSE d.recent_winner_cooldown_days
        cutoff == n - Days(Max(days, RetentionDays))
        kept == SelectSeq(d.recent_winners, LAMBDA e : e.won_at >= cutoff)
        m == [d EXCEPT !.auto_enabled = auto,
                       !.admin_roles = roles,
                       !.recent_winner_cooldown_days = days,
                       !.recent_winners = kept]
    IN  [mem |-> m, updated |-> m # d]

\* _restore_pending_giveaways, 93-101
restore_pending(m) ==
    {Task("start", p, "sleep", m.pending_giveaways[p].start_time, TRUE, "task") :
       p \in DOMAIN m.pending_giveaways}

\* (mutant) a finish timer for every giveaway, finished ones too
restore_active_all(m, n) ==
    {Task("finish", g, "sleep", m.giveaways[g].end_time,
          m.giveaways[g].end_time - n > 0, "task") : g \in Listed(m)}

\* _restore_active_giveaways, 103-113: _schedule_finish for each active one
restore_active(m, n) ==
    {Task("finish", g, "sleep", m.giveaways[g].end_time,
          m.giveaways[g].end_time - n > 0, "task") : g \in list_active(m)}

\* _restore_recurring_giveaways, 115-124
restore_recurring(m, n) ==
    {Task("recurring", r, "sleep", Max(m.recurring_giveaways[r].next_start, n),
          TRUE, "task") :
       r \in {x \in DOMAIN m.recurring_giveaways :
                m.recurring_giveaways[x].enabled}}

load_tasks(m, n) ==
    restore_pending(m) \cup restore_active(m, n) \cup restore_recurring(m, n)

\* the process stops (every task is lost) and starts again: setup_hook
\* awaits load() and only then runs the first sweep
Restart(maxBoot) ==
    /\ boot < maxBoot
    /\ LET r == load_state(disk, config, now)
       IN  /\ mem' = r.mem
           /\ disk' = IF r.updated THEN Payload(r.mem) ELSE disk
           /\ tasks' = load_tasks(r.mem, now)
    /\ sweep' = Sweep0
    /\ hist' = [hist EXCEPT !.audit = Audit0]
    /\ boot' = boot + 1
    /\ UNCHANGED <<now, config, nextId>>

Tick(maxTime) ==
    /\ now < maxTime
    /\ now' = now + 1
    /\ UNCHANGED <<config, mem, disk, tasks, sweep, nextId, boot, hist>>

----------------------------------------------------------------------------
(* The workspace as the manager first sees it, no configuration schedules  *)

Config0 == [auto_enabled |-> FALSE, giveaways |-> <<>>]

InitLife ==
    /\ now = 0
    /\ config = Config0
    /\ mem = GuildState
    /\ disk = mem
    /\ tasks = {}
    /\ sweep = Sweep0
    /\ nextId = 1
    /\ boot = 0
    /\ hist = Hist0

----------------------------------------------------------------------------
(* SpecSched: configuration schedules under the periodic sweep, with       *)
(* timezone changes (restarts are in SpecSchedCrash)                       *)

SchedMaxIds == 3
SchedMaxTime == 2
MaxTzChanges == 2

SchedConfigs ==
    {[auto_enabled |-> TRUE,
      giveaways |-> <<ScheduledGiveawayConfig(1, FALSE, 1, 0, 1),
                      ScheduledGiveawayConfig(2, TRUE, 0, 0, 1),
                      ScheduledGiveawayConfig(3, TRUE, 1, 0, 1)>>]}

InitSched ==
    /\ now = 0
    /\ config \in SchedConfigs
    /\ mem \in {[GuildState EXCEPT !.timezone = tz] : tz \in {0, 2}}
    /\ disk = mem
    /\ tasks = {}
    /\ sweep = Sweep0
    /\ nextId = 1
    /\ boot = 0
    /\ hist = Hist0

NextSched ==
    \/ SweepStart
    \/ HsNext
    \/ HsSnapshot
    \/ HsCheckActive
    \/ HsStart(SchedMaxIds)
    \/ HsMark
    \/ AuditScan
    \/ AuditEnd
    \/ AuditFin
    \/ \E t \in tasks : FinishTimerFire(t)
    \/ \E t \in tasks : FinChannel(t)
    \/ \E t \in tasks : FinDraw(t)
    \/ \E t \in tasks : FinRecord(t)
    \/ \E tz \in {0, 2, 9} : set_timezone(tz, MaxTzChanges)
    \/ Tick(SchedMaxTime)

SpecSched == InitSched /\ [][NextSched]_vars

\* fires i < j of the same schedule
SameSchedule(i, j) ==
    /\ i \in DOMAIN hist.fires /\ j \in DOMAIN hist.fires /\ i < j
    /\ hist.fires[i].sid = hist.fires[j].sid

----------------------------------------------------------------------------
(* SpecSchedCrash: configuration schedules under the periodic sweep, the   *)
(* process stopping and starting again at any point                        *)

CrashMaxIds == 2

NextSchedCrash ==
    \/ SweepStart
    \/ HsNext
    \/ HsSnapshot
    \/ HsCheckActive
    \/ HsStart(CrashMaxIds)
    \/ HsMark
    \/ AuditScan
    \/ AuditEnd
    \/ AuditFin
    \/ \E t \in tasks : FinishTimerFire(t)
    \/ \E t \in tasks : FinChannel(t)
    \/ \E t \in tasks : FinDraw(t)
    \/ \E t \in tasks : FinRecord(t)
    \/ Restart(MaxRestarts)
    \/ Tick(SchedMaxTime)

SpecSchedCrash == InitSched /\ [][NextSchedCrash]_vars

\* C4: a schedule that fired on a local date does not fire again on that
\* date after the process has stopped and the state has been reloaded
C4_OncePerDateAcrossRestart ==
    \A i, j \in DOMAIN hist.fires :
       (SameSchedule(i, j) /\ hist.fires[i].boot < hist.fires[j].boot)
          => hist.fires[i].date < hist.fires[j].date

----------------------------------------------------------------------------
(* SpecRec: a recurring giveaway, its runners, and the commands that       *)
(* disable it, enable it and change the timezone; restarts                 *)

RecMaxIds == 3
RecMaxTime == 4

NextRec ==
    \/ schedule_recurring_giveaway(1, {1}, {1}, {2}, BOOLEAN)
    \/ \E r \in 1..RecMaxIds : disable_recurring(r)
    \/ \E r \in 1..RecMaxIds : enable_recurring(r)
    \/ \E tz \in {0, 2, 9} : set_timezone(tz, 1)
    \/ \E t \in tasks : RecurringFire(t)
    \/ \E t \in tasks : RecurringChannel(t)
    \/ \E t \in tasks : RecurringStart(t, RecMaxIds)
    \/ \E t \in tasks : RecurringNext(t)
    \/ \E t \in tasks : RunnerExit(t)
    \/ \E t \in tasks : FinishTimerFire(t)
    \/ \E t \in tasks : FinChannel(t)
    \/ \E t \in tasks : FinDraw(t)
    \/ \E t \in tasks : FinRecord(t)
    \/ Restart(MaxRestarts)
    \/ Tick(RecMaxTime)

SpecRec == InitLife /\ [][NextRec]_vars

\* C5: for each recurring schedule and each daily window (identified by the
\* window's end, which the giveaway gets as its end time) at most one
\* giveaway tagged with the schedule's id is created
C5_OneGiveawayPerWindow ==
    \A i, j \in DOMAIN hist.fires :
       SameSchedule(i, j) => hist.fires[i].end_time # hist.fires[j].end_time

----------------------------------------------------------------------------
(* SpecPend: giveaways scheduled for later, their start runners, restarts  *)

PendMaxIds == 3
PendMaxTime == 2

NextPend ==
    \/ schedule_manual_giveaway(1, {0, 1}, {1}, {1, 2})
    \/ \E t \in tasks : PendingFire(t)
    \/ \E t \in tasks : PendingChannel(t)
    \/ \E t \in tasks : PendingStart(t, PendMaxIds)
    \/ \E t \in tasks : PendingRemove(t)
    \/ \E t \in tasks : RunnerExit(t)
    \/ \E t \in tasks : FinishTimerFire(t)
    \/ \E t \in tasks : FinChannel(t)
    \/ \E t \in tasks : FinDraw(t)
    \/ \E t \in tasks : FinRecord(t)
    \/ SweepStart
    \/ AuditScan
    \/ AuditEnd
    \/ AuditFin
    \/ Restart(MaxRestarts)
    \/ Tick(PendMaxTime)

SpecPend == InitLife /\ [][NextPend]_vars

\* C6: every pending giveaway produces at most one giveaway, whatever
\* timer fire, restart or sweep comes later
C6_PendingStartsOnce == \A p \in Ids : hist.pstarts[p] <= 1

----------------------------------------------------------------------------
(* SpecDraw: one giveaway with two users, finished by end-now, its timer   *)
(* or the audit, and rerolled                                              *)

DrawMaxTime == 1

NextDraw ==
    \/ StartGiveaway(1, {1}, {1})
    \/ \E g \in Ids, u \in Users : add_participant(g, u)
    \/ \E g \in Ids : EndNow(g)
    \/ \E t \in tasks : FinishTimerFire(t)
    \/ \E t \in tasks : FinChannel(t)
    \/ \E t \in tasks : FinDraw(t)
    \/ \E t \in tasks : FinRecord(t)
    \/ \E g \in Ids : RerollStart(g, MaxRerolls)
    \/ \E t \in tasks : RerollRecord(t)
    \/ \E t \in tasks : RerollSet(t)
    \/ SweepStart
    \/ AuditScan
    \/ AuditEnd
    \/ AuditFin
    \/ Tick(DrawMaxTime)

SpecDraw == InitLife /\ [][NextDraw]_vars

\* C7: when the finalization of a giveaway that end_giveaway has just
\* finished completes with winners drawn, last_announced_winners is the
\* drawn list, the state is persisted, and the ledger has an entry for each
\* drawn winner with this giveaway's id
C7_FinalizationRecordsDraw ==
    [][\A t \in tasks :
         (t.kind = "end" /\ t.w # <<>> /\ FinRecord(t))
            => /\ mem'.giveaways[t.id].last_announced_winners = t.w
               /\ disk' = Payload(mem')
               /\ \A i \in 1..Len(t.w) :
                     \E e \in Range(mem'.recent_winners) :
                        e.user_id = t.w[i] /\ e.giveaway_id = t.id]_vars

----------------------------------------------------------------------------
(* SpecLife: the lifecycle of giveaways created by the start command       *)

LifeUsers == {1}

Some(S) == {<<x>> : x \in S}
Optional(S) == {<<>>} \cup Some(S)

NextLife ==
    \/ StartGiveaway(LifeMaxGiveaways, {0, 1}, 0..LifeMaxTime)
    \/ \E g \in Ids, u \in LifeUsers : add_participant(g, u)
    \/ \E g \in Ids, u \in LifeUsers : remove_participant(g, u)
    \/ \E g \in Ids : EndNow(g)
    \/ \E t \in tasks : FinishTimerFire(t)
    \/ \E t \in tasks : FinChannel(t)
    \/ \E t \in tasks : FinDraw(t)
    \/ \E t \in tasks : FinRecord(t)
    \/ \E g \in Ids, w \in Some({0, 1}) :
          update_giveaway(g, w, <<>>, <<>>, <<>>)
    \/ \E g \in Ids, e \in Some(0..LifeMaxTime) :
          update_giveaway(g, <<>>, <<>>, <<>>, e)
    \/ cleanup_finished
    \/ \E g \in Ids : RerollStart(g, MaxRerolls)
    \/ \E t \in tasks : RerollRecord(t)
    \/ \E t \in tasks : RerollSet(t)
    \/ SweepStart
    \/ AuditScan
    \/ AuditEnd
    \/ AuditFin
    \/ Restart(MaxRestarts)
    \/ Tick(LifeMaxTime)

SpecLife == InitLife /\ [][NextLife]_vars

Finished(m, g) == g \in DOMAIN m.giveaways /\ ~m.giveaways[g].is_active

\* C1: once is_active of a giveaway is false it is never true again, in
\* memory and in the persisted state, whatever operation comes next (create,
\* join/leave, edit, end-now, finish timer, audit, reroll, cleanup, restart)
C1_FinishedIsTerminal ==
    [][\A g \in Ids :
         /\ Finished(mem, g) => ~(g \in DOMAIN mem'.giveaways
                                    /\ mem'.giveaways[g].is_active)
         /\ Finished(disk, g) => ~(g \in DOMAIN disk'.giveaways
                                     /\ disk'.giveaways[g].is_active)]_vars

\* C1 witness: a giveaway finished before a restart is still there, and
\* still finished, after it
C1_Witness ==
    \E g \in Ids : boot = 1 /\ get_giveaway(mem, g) /\ Finished(mem, g)
                    /\ hist.flips[g] = 1

EndTasks(g) == {t \in tasks : t.kind = "end" /\ t.id = g}

\* C2 (as amended): end_giveaway on a finished giveaway changes nothing; of
\* all end_giveaway calls on one id (end-now, finish timer, audit) at most
\* one flips Active -> Finished, only that call draws, it draws at most once,
\* and it has drawn once its finalization has found the channel and gone on
C2_EndIdempotent ==
    /\ [](\A g \in Ids :
            /\ hist.flips[g] <= 1
            /\ hist.enddraws[g] <= hist.flips[g]
            /\ (\E t \in EndTasks(g) : t.pc = "record") => hist.enddraws[g] = 1
            /\ (boot = 0 /\ hist.endchan[g] = 1
                  /\ \A t \in EndTasks(g) : t.pc # "draw")
                 => hist.enddraws[g] = 1)
    /\ [][\A g \in Ids :
            (Finished(mem, g) /\ EndNow(g)) => UNCHANGED vars]_vars

\* C2 witness: both the finish timer and end-now have called end_giveaway
\* on the giveaway; one flip, one draw, finalization complete
C2_Witness ==
    \E g \in Ids : /\ hist.flips[g] = 1 /\ hist.enddraws[g] = 1
                    /\ EndTasks(g) = {}
                    /\ mem.giveaways[g].last_announced_winners # <<>>

\* C2 as stated: once every end_giveaway call on the id has returned,
\* winners have been drawn exactly once
C2_Original_DrawnExactlyOnce ==
    \A g \in Ids :
       (boot = 0 /\ hist.flips[g] = 1 /\ EndTasks(g) = {})
          => hist.enddraws[g] = 1

----------------------------------------------------------------------------
(* SpecLive: the lifecycle with a sweep that keeps running: each step of   *)
(* the sweep, and each Discord call the sweep is waiting for, eventually   *)
(* happens (tasks.loop in bot.py 212-215 starts a new run every minute),   *)
(* and time passes.  The finish timers are given no fairness               *)

SweepWait ==
    \E t \in tasks :
       /\ t.owner = "sweep"
       /\ (FinChannel(t) \/ FinDraw(t) \/ FinRecord(t))

SpecLive ==
    /\ InitLife
    /\ [][NextLife]_vars
    /\ WF_vars(SweepStart)
    /\ WF_vars(AuditScan)
    /\ WF_vars(AuditEnd)
    /\ WF_vars(AuditFin)
    /\ WF_vars(SweepWait)
    /\ WF_vars(Tick(LifeMaxTime))

Overdue(g) ==
    /\ g \in DOMAIN mem.giveaways
    /\ mem.giveaways[g].is_active
    /\ mem.giveaways[g].end_time <= now

\* C8: an Active giveaway whose end_time has passed eventually is Finished,
\* whether or not its finish timer ever fires, as long as the sweep keeps
\* running
C8_OverdueEventuallyFinished ==
    \A g \in Ids : Overdue(g) ~> Finished(mem, g)

\* a giveaway the audit has just force-finished, its finish timer not having
\* fired
C8_Witness ==
    \E t \in tasks :
       /\ t.kind = "end"
       /\ t.owner = "sweep"
       /\ Finished(mem, t.id)
       /\ mem.giveaways[t.id].end_time <= now

----------------------------------------------------------------------------
(* SpecAudit: two giveaways under the overdue audit, with end-now, finish  *)
(* timers and a restart                                                    *)

AuditMaxGiveaways == 2
AuditMaxTime == 1

NextAudit ==
    \/ StartGiveaway(AuditMaxGiveaways, {1}, 0..AuditMaxTime)
    \/ \E g \in Ids, u \in LifeUsers : add_participant(g, u)
    \/ \E g \in Ids : EndNow(g)
    \/ \E t \in tasks : FinishTimerFire(t)
    \/ \E t \in tasks : FinChannel(t)
    \/ \E t \in tasks : FinDraw(t)
    \/ \E t \in tasks : FinRecord(t)
    \/ SweepStart
    \/ AuditScan
    \/ AuditEnd
    \/ AuditFin
    \/ Restart(MaxRestarts)
    \/ Tick(AuditMaxTime)

SpecAudit == InitLife /\ [][NextAudit]_vars

\* the scan lists exactly the overdue Active giveaways, and the overdue
\* Finished giveaways with participants and no recorded winners
AuditScansOverdue ==
    AuditScan =>
       /\ hist'.audit.to_end =
             {g \in Listed(mem) : /\ mem.giveaways[g].is_active
                                  /\ mem.giveaways[g].end_time <= now}
       /\ hist'.audit.to_finalize =
             {g \in Listed(mem) : /\ ~mem.giveaways[g].is_active
                                  /\ mem.giveaways[g].end_time <= now
                                  /\ Len(mem.giveaways[g].participants) > 0
                                  /\ mem.giveaways[g].last_announced_winners
                                        = <<>>}

\* the audit returns: AuditFin with nothing left to finalize
AuditReturns == AuditFin /\ sweep.to_finalize = <<>>

\* a step of the audit changes only giveaways it has listed and sets no
\* is_active back to true
AuditTouchesListed ==
    (AuditScan \/ AuditEnd \/ AuditFin \/ SweepWait) =>
       \A g \in Listed(mem) :
          /\ g \in Listed(mem')
          /\ ~mem.giveaways[g].is_active => ~mem'.giveaways[g].is_active
          /\ g \notin (hist.audit.to_end \cup hist.audit.to_finalize)
                => mem'.giveaways[g] = mem.giveaways[g]

----------------------------------------------------------------------------
(* SpecLoad: pending giveaways, giveaways and recurring schedules together, *)
(* with the sweep and a restart                                             *)

LoadMaxIds == 3
LoadMaxTime == 1

NextLoad ==
    \/ schedule_manual_giveaway(LoadMaxIds, {1}, {1}, {2})
    \/ \E t \in tasks : PendingFire(t)
    \/ \E t \in tasks : PendingChannel(t)
    \/ \E t \in tasks : PendingStart(t, LoadMaxIds)
    \/ \E t \in tasks : PendingRemove(t)
    \/ schedule_recurring_giveaway(LoadMaxIds, {1}, {1}, {2}, {FALSE})
    \/ \E r \in Ids : disable_recurring(r)
    \/ \E t \in tasks : RecurringFire(t)
    \/ \E t \in tasks : RecurringChannel(t)
    \/ \E t \in tasks : RecurringStart(t, LoadMaxIds)
    \/ \E t \in tasks : RecurringNext(t)
    \/ \E t \in tasks : RunnerExit(t)
    \/ StartGiveaway(LoadMaxIds, {1}, {1})
    \/ \E g \in Ids : EndNow(g)
    \/ \E t \in tasks : FinishTimerFire(t)
    \/ \E t \in tasks : FinChannel(t)
    \/ \E t \in tasks : FinDraw(t)
    \/ \E t \in tasks : FinRecord(t)
    \/ SweepStart
    \/ AuditScan
    \/ AuditEnd
    \/ AuditFin
    \/ Restart(MaxRestarts)
    \/ Tick(LoadMaxTime)

SpecLoad == InitLife /\ [][NextLoad]_vars

\* the timers of `kind` for `id` in ts
Timers(ts, kind, id) == {t \in ts : t.kind = kind /\ t.id = id}

\* exactly one timer of `kind` for `id`, asleep, recorded in the registry
\* when it sleeps, and firing from `instant` on (at once when it has passed)
Armed(ts, kind, id, instant, n) ==
    /\ Cardinality(Timers(ts, kind, id)) = 1
    /\ \A t \in Timers(ts, kind, id) :
          /\ t.pc = "sleep"
          /\ Max(t.wake, n) = Max(instant, n)
          /\ instant > n => t.reg

\* C10: when load() has completed there is a start timer for every
\* persisted pending giveaway, a finish timer for every persisted Active
\* giveaway and a fire timer for every enabled recurring schedule, each
\* firing at its instant or at once when that has passed; there is no
\* other task (none for a finished giveaway or a disabled schedule), and
\* the sweep has not started
C10_LoadArmsTimers ==
    [][boot' # boot =>
         /\ \A p \in DOMAIN disk.pending_giveaways :
               Armed(tasks', "start", p,
                     disk.pending_giveaways[p].start_time, now')
         /\ \A g \in DOMAIN disk.giveaways :
               IF disk.giveaways[g].is_active
               THEN Armed(tasks', "finish", g, disk.giveaways[g].end_time, now')
               ELSE Timers(tasks', "finish", g) = {}
         /\ \A r \in DOMAIN disk.recurring_giveaways :
               IF disk.recurring_giveaways[r].enabled
               THEN Armed(tasks', "recurring", r,
                          disk.recurring_giveaways[r].next_start, now')
               ELSE Timers(tasks', "recurring", r) = {}
         /\ \A t \in tasks' :
               \/ t.kind = "start" /\ t.id \in DOMAIN disk.pending_giveaways
               \/ t.kind = "finish" /\ t.id \in DOMAIN disk.giveaways
               \/ t.kind = "recurring"
                     /\ t.id \in DOMAIN disk.recurring_giveaways
         /\ sweep'.pc = "idle"]_vars

\* after a restart: a pending giveaway, an Active giveaway and an enabled
\* recurring schedule each have their restored timer, one of them overdue
C10_Witness ==
    /\ boot = 1
    /\ sweep.pc = "idle"
    /\ tasks = load_tasks(mem, now)
    /\ \E t \in tasks : t.kind = "start"
    /\ \E t \in tasks : t.kind = "finish"
    /\ \E t \in tasks : t.kind = "recurring"
    /\ \E t \in tasks : t.wake <= now

----------------------------------------------------------------------------
(* Finish timers under edits of end_time (SpecLife)                        *)

\* the finish timer t ends its giveaway in this step
TimerEnds(t) ==
    /\ t.kind = "finish"
    /\ FinishTimerFire(t)
    /\ t.id \in DOMAIN mem.giveaways
    /\ mem.giveaways[t.id].is_active
    /\ ~mem'.giveaways[t.id].is_active

\* C11: a finish timer ends a giveaway only if it was armed for the
\* giveaway's current end_time (a timer armed before an edit of end_time
\* never ends it), and at most one finish timer is live for a giveaway
C11_OnlyCurrentTimerEnds ==
    [][/\ \A t \in tasks :
            TimerEnds(t) => t.wake = mem.giveaways[t.id].end_time
       /\ \A g \in Ids : Cardinality(Timers(tasks', "finish", g)) <= 1]_vars

----------------------------------------------------------------------------
(* Disabling and enabling a recurring schedule (SpecRec)                   *)

\* a giveaway tagged with recurring schedule r is created in this step
RecurringCreates(r) ==
    /\ Len(hist'.fires) = Len(hist.fires) + 1
    /\ hist'.fires[Len(hist'.fires)].sid = RecId(r)

\* C12: a disabled recurring schedule stays in the store with
\* enabled = false, no giveaway tagged with its id is created while it is
\* disabled, and enable_recurring stores the next window computed from the
\* current time
C12_DisabledCreatesNothing ==
    [][\A r \in DOMAIN mem.recurring_giveaways :
         /\ r \in DOMAIN mem'.recurring_giveaways
         /\ (disable_recurring(r) /\ mem.recurring_giveaways[r].enabled)
               => ~mem'.recurring_giveaways[r].enabled
         /\ RecurringCreates(r) => mem.recurring_giveaways[r].enabled
         /\ (enable_recurring(r) /\ ~mem.recurring_giveaways[r].enabled)
               => /\ mem'.recurring_giveaways[r].enabled
                  /\ <<mem'.recurring_giveaways[r].next_start,
                        mem'.recurring_giveaways[r].next_end>>
                       = compute_next_window(mem.timezone,
                                             mem.recurring_giveaways[r].start_time,
                                             mem.recurring_giveaways[r].end_time,
                                             now)]_vars

\* the runners of recurring schedule r that sleep or are firing
Runners(ts, r) == {t \in Timers(ts, "recurring", r) : t.pc # "exit"}

\* runner t stores the next window in this step: after a start, or after a
\* start that failed
StoresNextWindow(t) ==
    /\ t.kind = "recurring"
    /\ \/ RecurringNext(t)
       \/ t.pc = "start" /\ RecurringStart(t, RecMaxIds) /\ nextId' = nextId

Sleeping(ts, r) == {t \in Runners(ts, r) : t.pc = "sleep"}

\* runner t finds no channel and disables its schedule in this step
DisablesItself(t) ==
    /\ t.kind = "recurring"
    /\ RecurringChannel(t)
    /\ mem.recurring_giveaways[t.id].enabled
    /\ ~mem'.recurring_giveaways[t.id].enabled

\* C14: a fire that finds no channel creates no giveaway and leaves the
\* schedule in the store with enabled = false and no new timer; afterwards
\* the schedule becomes enabled again, or gets a new timer, only by
\* enable_recurring
C14_UnreachableDisables ==
    [][/\ \A t \in tasks :
            DisablesItself(t) =>
               /\ mem'.giveaways = mem.giveaways
               /\ Sleeping(tasks', t.id) \subseteq Sleeping(tasks, t.id)
       /\ \A r \in DOMAIN mem.recurring_giveaways :
            ~mem.recurring_giveaways[r].enabled =>
               /\ r \in DOMAIN mem'.recurring_giveaways
               /\ enable_recurring(r)
                    \/ /\ ~mem'.recurring_giveaways[r].enabled
                       /\ Sleeping(tasks', r) \subseteq Sleeping(tasks, r)]_vars

----------------------------------------------------------------------------
(* A pending giveaway whose channel is not found (SpecPend)                *)

\* C15: once the start of a pending giveaway has found no channel, the
\* pending entry is gone from the store and from the disk, no timer for it
\* sleeps or fires, and no giveaway is created from it, then or later
C15_UnreachableIsTerminal ==
    [][\A p \in hist'.unreachable :
         /\ ~get_pending(mem', p)
         /\ ~get_pending(disk', p)
         /\ \A t \in Timers(tasks', "start", p) : t.pc = "exit"
         /\ hist'.pstarts[p] = hist.pstarts[p]
         /\ p \notin hist.unreachable => mem'.giveaways = mem.giveaways]_vars

\* a pending giveaway was removed for want of a channel; its runner has
\* returned, and time has moved past its start
C15_Witness ==
    \E p \in hist.unreachable :
       /\ Timers(tasks, "start", p) = {}
       /\ hist.pstarts[p] = 0
       /\ boot = 1

----------------------------------------------------------------------------
(* SpecWindow: _compute_next_window on every time-of-day pair, reference   *)
(* instant and zone, through the operations that call it: a disabled       *)
(* recurring schedule is enabled, disabled, and moved to another zone      *)

WinMaxTime == 8
WinTzChanges == 1

TimesOfDay == 0..(TicksPerDay - 1)

InitWindow ==
    /\ now \in 0..WinMaxTime
    /\ config = Config0
    /\ \E tz \in Timezones, st \in TimesOfDay, et \in TimesOfDay :
          mem = upsert_recurring(
                   [GuildState EXCEPT !.timezone = tz], 1,
                   [RecurringGiveaway(1, <<"t2", "d2">>, st, et, 0, 1)
                      EXCEPT !.enabled = FALSE])
    /\ disk = mem
    /\ tasks = {}
    /\ sweep = Sweep0
    /\ nextId = 2
    /\ boot = 0
    /\ hist = Hist0

NextWindow ==
    \/ enable_recurring(1)
    \/ disable_recurring(1)
    \/ \E tz \in Timezones : set_timezone(tz, WinTzChanges)
    \/ Tick(WinMaxTime)

SpecWindow == InitWindow /\ [][NextWindow]_vars

\* C16: for every schedule (time-of-day pair), zone and reference instant,
\* compute_next_window returns next_start at the start time of day,
\* strictly after the reference and at most a day after it, and next_end
\* at the end time of day, strictly after next_start and at most a day
\* after it
C16_NextWindowInFuture ==
    \A r \in DOMAIN mem.recurring_giveaways :
       LET rec == mem.recurring_giveaways[r]
           tz == mem.timezone
           win == compute_next_window(tz, rec.start_time, rec.end_time, now)
       IN  /\ LocalTime(win[1], tz) = rec.start_time
           /\ win[1] > now
           /\ win[1] <= now + TicksPerDay
           /\ LocalTime(win[2], tz) = rec.end_time
           /\ win[2] > win[1]
           /\ win[2] <= win[1] + TicksPerDay

----------------------------------------------------------------------------
(* SpecZone: a recurring schedule that fires while the workspace's zone is *)
(* changed; the schedule is never disabled                                 *)

ZoneMaxIds == 3
ZoneMaxTime == 4
ZoneTzChanges == 1

NextZone ==
    \/ schedule_recurring_giveaway(1, {1}, {1}, {2}, {FALSE})
    \/ \E tz \in {0, 2, 9} : set_timezone(tz, ZoneTzChanges)
    \/ \E t \in tasks : RecurringFire(t)
    \/ \E t \in tasks : RecurringChannel(t)
    \/ \E t \in tasks : RecurringStart(t, ZoneMaxIds)
    \/ \E t \in tasks : RecurringNext(t)
    \/ \E t \in tasks : RunnerExit(t)
    \/ \E t \in tasks : FinishTimerFire(t)
    \/ \E t \in tasks : FinChannel(t)
    \/ \E t \in tasks : FinDraw(t)
    \/ \E t \in tasks : FinRecord(t)
    \/ Tick(ZoneMaxTime)

SpecZone == InitLife /\ [][NextZone]_vars

\* the sleep of timer t ends in this step and its schedule, found enabled,
\* starts to fire
TimerFires(t) ==
    /\ t.kind = "recurring"
    /\ t.pc = "sleep"
    /\ RecurringFire(t)
    /\ get_recurring(mem, t.id)
    /\ mem.recurring_giveaways[t.id].enabled

\* C17: a change of zone stores, for every recurring schedule, the next
\* window computed in the new zone, and a schedule fires only at or after
\* its stored next_start: a timer armed for an earlier instant before the
\* change does not fire it
C17_ZoneChangeRealigns ==
    [][/\ mem'.timezone # mem.timezone =>
            \A r \in DOMAIN mem'.recurring_giveaways :
               <<mem'.recurring_giveaways[r].next_start,
                 mem'.recurring_giveaways[r].next_end>>
                 = compute_next_window(mem'.timezone,
                                       mem.recurring_giveaways[r].start_time,
                                       mem.recurring_giveaways[r].end_time,
                                       now)
       /\ \A t \in tasks :
            TimerFires(t) => now >= mem.recurring_giveaways[t.id].next_start]_vars

----------------------------------------------------------------------------
(* SpecChoose: the draw on every small giveaway and ledger.  One giveaway  *)
(* (id 1) is either active with a timer, to be ended by the end-now        *)
(* command, or finished, to be rerolled; the ledger holds at most one      *)
(* entry per user, won in another giveaway                                  *)

ChooseUsers == {1, 2, 3}
ChooseMaxWinners == 2
ChooseCooldownDays == 1
ChooseNow == Days(RetentionDays) + 2

\* when a ledger entry was won: before the retention cut-off, one instant
\* before the cool-down cut-off, at the cool-down cut-off
WonAts == {0, ChooseNow - Days(ChooseCooldownDays) - 1,
           ChooseNow - Days(ChooseCooldownDays)}
NoEntry == 0 - 1

RECURSIVE Asc(_)
\* the members of a set of integers as a list in rising order
Asc(S) ==
    IF S = {} THEN <<>>
    ELSE LET m == CHOOSE x \in S : \A y \in S : x <= y
         IN  <<m>> \o Asc(S \ {m})

RECURSIVE LedgerFrom(_, _)
\* the ledger with an entry (u, won[u]) for every user with won[u] # NoEntry,
\* oldest first, for the instants `ts`
LedgerFrom(won, ts) ==
    IF ts = <<>> THEN <<>>
    ELSE LET us == Asc({u \in DOMAIN won : won[u] = Head(ts)})
         IN  [i \in 1..Len(us) |-> RecentWinner(us[i], 2, Head(ts))]
                \o LedgerFrom(won, Tail(ts))

InitChoose ==
    /\ now = ChooseNow
    /\ config = Config0
    /\ \E P \in SUBSET ChooseUsers, W \in 1..ChooseMaxWinners,
          active \in BOOLEAN, enabled \in BOOLEAN,
          days \in {0, ChooseCooldownDays},
          won \in [ChooseUsers -> WonAts \cup {NoEntry}] :
         \E L \in {S \in SUBSET P : Cardinality(S) <= W /\ (active => S = {})} :
            LET rec == [Giveaway(W, "t1", "d1",
                                 IF active THEN ChooseNow + 1 ELSE ChooseNow - 1,
                                 NoSchedule)
                          EXCEPT !.participants = Asc(P),
                                 !.is_active = active,
                                 !.last_announced_winners = Asc(L)]
            IN  /\ mem = [upsert_giveaway(GuildState, 1, rec) EXCEPT
                            !.recent_winner_cooldown_enabled = enabled,
                            !.recent_winner_cooldown_days = days,
                            !.recent_winners = LedgerFrom(won, Asc(WonAts))]
                /\ tasks = schedule_finish({}, mem, 1, FALSE, now)
    /\ disk = Payload(mem)
    /\ sweep = Sweep0
    /\ nextId = 2
    /\ boot = 0
    /\ hist = Hist0

NextChoose ==
    \/ EndNow(1)
    \/ \E t \in tasks : FinChannel(t)
    \/ \E t \in tasks : FinDraw(t)
    \/ \E t \in tasks : FinDrawn(t)
    \/ \E t \in tasks : FinRecord(t)
    \/ RerollStart(1, MaxRerolls)
    \/ \E t \in tasks : RerollRecord(t)
    \/ \E t \in tasks : RerollSet(t)

SpecChoose == InitChoose /\ [][NextChoose]_vars

\* the calls whose draw is made in this step, as they stand after it
Drawing == {u \in tasks' \ tasks : u.pc \in {"record", "drawn"}}

\* user u has a ledger entry won within the last cooldown_days
InCooldown(u) ==
    \E e \in Range(mem.recent_winners) :
       /\ e.user_id = u
       /\ e.won_at >= now - Days(mem.recent_winner_cooldown_days)

CooldownOn ==
    mem.recent_winner_cooldown_enabled /\ mem.recent_winner_cooldown_days > 0

Distinct(w) == \A i, j \in 1..Len(w) : i # j => w[i] # w[j]

\* C18: a draw that is not a reroll and finds nobody in the cool-down
\* returns exactly min(W, N) pairwise distinct members of the N
\* participants, and the empty list when N = 0
C18_DrawsMinOfWinnersAndParticipants ==
    [][\A t \in tasks :
         (FinDraw(t) /\ (~CooldownOn \/ \A u \in ChooseUsers : ~InCooldown(u)))
            => LET rec == mem.giveaways[t.id]
               IN  \A u \in Drawing :
                      /\ Len(u.w) = Min(rec.winners, Len(rec.participants))
                      /\ Distinct(u.w)
                      /\ Range(u.w) \subseteq Range(rec.participants)]_vars

\* a draw for two winners among three participants, none in the cool-down
\* although the ledger names one of them, has returned two of them
C18_Witness ==
    \E t \in tasks :
       /\ t.kind = "end"
       /\ t.pc = "record"
       /\ Len(t.w) = 2
       /\ Len(mem.giveaways[t.id].participants) = 3
       /\ ~CooldownOn
       /\ \E u \in Range(t.w) : InCooldown(u)

\* the participants of giveaway g that the cool-down does not block
Unblocked(g) ==
    {u \in Range(mem.giveaways[g].participants) : ~(CooldownOn /\ InCooldown(u))}

\* the reroll of g makes its draw in this step
Rerolls(g) ==
    /\ RerollStart(g, MaxRerolls)
    /\ get_giveaway(mem, g)
    /\ ~mem.giveaways[g].is_active

\* C19: a reroll made while the cool-down blocks somebody and exactly one
\* participant is not blocked returns exactly that participant, whether or
\* not that participant is one of the previous winners
C19_RerollReturnsTheUnblockedOne ==
    [][\A g \in Ids :
         (/\ Rerolls(g)
          /\ CooldownOn
          /\ \E u \in ChooseUsers : InCooldown(u)
          /\ Cardinality(Unblocked(g)) = 1)
            => \A u \in Drawing : Range(u.w) = Unblocked(g) /\ Len(u.w) = 1]_vars

NoCooldownBlock == ~CooldownOn \/ \A u \in ChooseUsers : ~InCooldown(u)

\* C21: a reroll of a giveaway with previous winners, with nobody blocked by
\* the cool-down, returns no previous winner when some participant is not a
\* previous winner, and draws min(W, N) of all the participants when every
\* participant is a previous winner
C21_RerollAvoidsPreviousWinners ==
    [][\A g \in Ids :
         (/\ Rerolls(g)
          /\ mem.giveaways[g].last_announced_winners # <<>>
          /\ NoCooldownBlock)
            => LET rec == mem.giveaways[g]
                   prev == Range(rec.last_announced_winners)
                   parts == Range(rec.participants)
               IN  \A u \in Drawing :
                      /\ Distinct(u.w)
                      /\ Range(u.w) \subseteq parts
                      /\ IF parts \ prev # {}
                         THEN /\ Range(u.w) \cap prev = {}
                              /\ Len(u.w) =
                                    Min(rec.winners, Cardinality(parts \ prev))
                         ELSE Len(u.w) =
                                 Min(rec.winners, Len(rec.participants))]_vars

\* a reroll of a giveaway with two previous winners among three participants
\* has returned the third
C21_Witness ==
    \E t \in tasks :
       /\ t.kind = "reroll"
       /\ t.pc = "record"
       /\ Len(mem.giveaways[t.id].last_announced_winners) = 2
       /\ Len(mem.giveaways[t.id].participants) = 3
       /\ NoCooldownBlock
       /\ Len(t.w) = 1
       /\ t.w[1] \notin Range(mem.giveaways[t.id].last_announced_winners)

----------------------------------------------------------------------------
(* SpecCommands: the commands with valid and invalid arguments, at one     *)
(* instant; the observer notes the last call that raised or returned a     *)
(* refusal                                                                  *)

CmdMaxIds == 2
CmdTzChanges == 1

InitCommands ==
    /\ now = 0
    /\ config = Config0
    /\ mem = GuildState
    /\ disk = mem
    /\ tasks = {}
    /\ sweep = Sweep0
    /\ nextId = 1
    /\ boot = 0
    /\ hist = [Hist0 EXCEPT !.watch = TRUE]

NextCommands ==
    \/ StartGiveaway(CmdMaxIds, {0, 1}, {1})
    \/ schedule_manual_giveaway(CmdMaxIds, {0, 1}, {1}, {1, 2})
    \/ schedule_recurring_giveaway(CmdMaxIds, {0, 1}, {1}, {2}, {FALSE})
    \/ \E g \in 1..CmdMaxIds : EndNow(g)
    \/ \E t \in tasks : FinChannel(t)
    \/ \E t \in tasks : FinDraw(t)
    \/ \E t \in tasks : FinRecord(t)
    \/ \E g \in 1..CmdMaxIds, w \in Optional({0, 1}), txt \in Optional({"t2"}),
          e \in Optional({2}) : update_giveaway(g, w, txt, txt, e)
    \/ \E tz \in {0, 2, 9} : set_timezone(tz, CmdTzChanges)
    \/ \E d \in {0 - 1, 0, 1} : set_recent_winner_cooldown_days(d)

SpecCommands == InitCommands /\ [][NextCommands]_vars

----------------------------------------------------------------------------
(* SpecJoin: two giveaways that users join and leave, that are ended by    *)
(* the end-now command and rerolled, active or not                         *)

NextJoin ==
    \/ StartGiveaway(CmdMaxIds, {1}, {1})
    \/ \E g \in 1..CmdMaxIds, u \in Users : add_participant(g, u)
    \/ \E g \in 1..CmdMaxIds, u \in Users : remove_participant(g, u)
    \/ \E g \in 1..CmdMaxIds : EndNow(g)
    \/ \E t \in tasks : FinChannel(t)
    \/ \E t \in tasks : FinDraw(t)
    \/ \E t \in tasks : FinRecord(t)
    \/ \E g \in 1..CmdMaxIds : RerollStart(g, MaxRerolls)
    \/ \E t \in tasks : RerollRecord(t)
    \/ \E t \in tasks : RerollSet(t)

SpecJoin == InitCommands /\ [][NextJoin]_vars

\* the step leaves the stored state, the saved state and the timers alone
NothingChanges == mem' = mem /\ disk' = disk /\ tasks' = tasks

\* C22: a reroll of an active giveaway raises an error and changes nothing:
\* last_announced_winners, the ledger, is_active and end_time stay as they
\* were, as does everything else stored
C22_RerollOfActiveRejected ==
    [][\A g \in Ids :
         (/\ RerollStart(g, MaxRerolls)
          /\ get_giveaway(mem, g)
          /\ mem.giveaways[g].is_active)
            => /\ NothingChanges
               /\ hist'.refused = <<"reroll", "active">>
               /\ hist'.rerolls = hist.rerolls]_vars

\* a reroll was refused and the giveaway, with a participant, is active
C22_Witness ==
    /\ hist.refused = <<"reroll", "active">>
    /\ hist.rerolls = 0
    /\ \E g \in Listed(mem) :
          /\ mem.giveaways[g].is_active
          /\ mem.giveaways[g].participants # <<>>
          /\ mem.giveaways[g].last_announced_winners = <<>>

\* a creation call with winners <= 0 is made in this step
CreatesWithoutWinners ==
    \/ StartGiveaway(CmdMaxIds, {0}, {1})
    \/ schedule_manual_giveaway(CmdMaxIds, {0}, {1}, {1, 2})
    \/ schedule_recurring_giveaway(CmdMaxIds, {0}, {1}, {2}, {FALSE})

\* C23: start_giveaway, schedule_manual_giveaway and
\* schedule_recurring_giveaway called with winners <= 0 fail validation:
\* no giveaway, pending giveaway or recurring schedule is stored or saved
\* and no timer is armed
C23_NoCreationWithoutWinners ==
    [][CreatesWithoutWinners
         => /\ NothingChanges
            /\ nextId' = nextId
            /\ hist'.refused # <<>>
            /\ hist'.refused[2] = "winners"]_vars

\* a call with arguments that fail validation is made in this step
\* (winners <= 0 with other fields given, end_time <= start_time, an
\* unknown zone name, a negative number of days)
InvalidCall ==
    \/ \E g \in 1..CmdMaxIds, txt \in Optional({"t2"}), e \in Optional({2}) :
          update_giveaway(g, <<0>>, txt, txt, e)
    \/ schedule_manual_giveaway(CmdMaxIds, {1}, {1}, {1})
    \/ set_timezone(9, CmdTzChanges)
    \/ set_recent_winner_cooldown_days(0 - 1)

\* C24: a call that fails validation leaves the state as it was:
\* update_giveaway with winners <= 0 applies no title, description or
\* end_time and arms no timer; schedule_manual_giveaway with
\* end_time <= start_time, set_timezone with an unknown zone name and
\* set_recent_winner_cooldown_days with a negative number change nothing
C24_RejectedCallChangesNothing ==
    [][InvalidCall
         => /\ NothingChanges
            /\ nextId' = nextId
            /\ hist'.refused # <<>>]_vars

\* update_giveaway was refused for a listed giveaway next to a pending
\* giveaway, and the giveaway has the title and end time it was made with
C24_Witness ==
    /\ hist.refused = <<"update_giveaway", "winners">>
    /\ mem.pending_giveaways # <<>>
    /\ \E g \in Listed(mem) :
          /\ mem.giveaways[g].title = "t1"
          /\ mem.giveaways[g].end_time = 1
          /\ mem.giveaways[g].winners = 1

\* add_participant or remove_participant is called in this step for a
\* giveaway that is unknown or finished
JoinsOrLeavesInactive(g, u) ==
    /\ add_participant(g, u) \/ remove_participant(g, u)
    /\ ~(get_giveaway(mem, g) /\ mem.giveaways[g].is_active)

\* C29: no participants list names a user twice, and add_participant and
\* remove_participant called for a finished or unknown giveaway return a
\* refusal and change nothing
C29_ParticipantsDistinctAndFrozen ==
    /\ [](\A g \in Listed(mem) : Distinct(mem.giveaways[g].participants))
    /\ [][\A g \in Ids, u \in Users :
            JoinsOrLeavesInactive(g, u)
               => /\ NothingChanges
                  /\ hist'.refused # <<>>
                  /\ hist'.refused[1] \in {"add_participant",
                                           "remove_participant"}
                  /\ hist'.refused[2] \in {"unavailable", "finished"}]_vars

\* a user was refused on a finished giveaway that holds another participant
C29_Witness ==
    /\ hist.refused = <<"add_participant", "finished">>
    /\ \E g \in Listed(mem) :
          /\ ~mem.giveaways[g].is_active
          /\ Len(mem.giveaways[g].participants) = 1

----------------------------------------------------------------------------
(* SpecFault: the periodic sweep when calls to the chat platform fail.     *)
(* _fetch_text_channel and _fetch_message return None on NotFound and      *)
(* Forbidden (1248-1266); channel.send and message.edit are called bare,   *)
(* so their exception leaves start_giveaway or _finalize_giveaway and      *)
(* every caller up to the task that runs them                              *)

FaultMaxIds == 2
FaultMaxTime == 1

\* start_giveaway, 433, called by _maybe_start_schedule (818): channel.send
\* raises; the exception leaves handle_scheduled (740-786) and
\* _scheduled_checker (bot.py 212-215), whose loop ends
HsStartFails ==
    /\ sweep.pc = "hs_start"
    /\ sweep' = [Sweep0 EXCEPT !.pc = "stopped"]
    /\ UNCHANGED <<now, config, mem, disk, tasks, nextId, boot, hist>>

\* _finalize_giveaway, 497-512: message.edit or channel.send raises; the
\* call ends there, and when audit_overdue awaits it (1036, 1043) the
\* exception leaves audit_overdue and _scheduled_checker
FinFails(t) ==
    /\ t.kind \in {"end", "auditfin"}
    /\ t.pc = "record"
    /\ tasks' = tasks \ {t}
    /\ sweep' = IF t.owner = "sweep" THEN [Sweep0 EXCEPT !.pc = "stopped"]
                ELSE sweep
    /\ UNCHANGED <<now, config, mem, disk, nextId, boot, hist>>

FaultConfig ==
    [auto_enabled |-> TRUE,
     giveaways |-> <<ScheduledGiveawayConfig(1, TRUE, 1, 0, 1),
                     ScheduledGiveawayConfig(2, TRUE, 1, 0, 1)>>]

InitFault ==
    /\ now = 0
    /\ config = FaultConfig
    /\ mem = GuildState
    /\ disk = mem
    /\ tasks = {}
    /\ sweep = Sweep0
    /\ nextId = 1
    /\ boot = 0
    /\ hist = Hist0

NextFault ==
    \/ SweepStart
    \/ HsNext
    \/ HsSnapshot
    \/ HsCheckActive
    \/ HsStart(FaultMaxIds)
    \/ HsStartFails
    \/ HsMark
    \/ AuditScan
    \/ AuditEnd
    \/ AuditFin
    \/ \E g \in Ids, u \in LifeUsers : add_participant(g, u)
    \/ \E t \in tasks : FinishTimerFire(t)
    \/ \E t \in tasks : FinChannel(t)
    \/ \E t \in tasks : FinDraw(t)
    \/ \E t \in tasks : FinRecord(t)
    \/ \E t \in tasks : FinFails(t)
    \/ Tick(FaultMaxTime)

SpecFault == InitFault /\ [][NextFault]_vars

\* C25: no NotFound or Forbidden outcome of a platform call made during a
\* sweep aborts the sweep: the sweep goes on to its remaining schedules and
\* overdue giveaways, and later sweeps run
C25_SweepSurvivesPlatformErrors == sweep.pc # "stopped"

----------------------------------------------------------------------------
(* SpecGate: the conditions under which handle_scheduled starts a          *)
(* configuration schedule, with the workspace's automation flag switched   *)
(* by toggle_auto while sweeps run                                         *)

GateMaxIds == 2
GateMaxTime == 2

\* toggle_auto (giveaway_manager.py 625-630): the flag is set and saved
\* under the state lock
toggle_auto(enabled) ==
    /\ mem' = [mem EXCEPT !.auto_enabled = enabled]
    /\ disk' = Payload(mem')
    /\ UNCHANGED <<now, config, tasks, sweep, nextId, boot, hist>>

GateConfigs ==
    {[auto_enabled |-> a,
      giveaways |-> <<ScheduledGiveawayConfig(1, en, 1, st, 0),
                      ScheduledGiveawayConfig(2, TRUE, 1, 0, 2)>>] :
        a \in BOOLEAN, en \in BOOLEAN, st \in 0..(TicksPerDay - 1)}

\* load (53-59) leaves the workspace flag off when the global flag is off
InitGate ==
    /\ now = 0
    /\ config \in GateConfigs
    /\ mem \in {[GuildState EXCEPT !.timezone = tz, !.auto_enabled = a] :
                  tz \in {0, 2}, a \in {b \in BOOLEAN : b => config.auto_enabled}}
    /\ disk = mem
    /\ tasks = {}
    /\ sweep = Sweep0
    /\ nextId = 1
    /\ boot = 0
    /\ hist = Hist0

NextGate ==
    \/ SweepStart
    \/ HsNext
    \/ HsSnapshot
    \/ HsCheckActive
    \/ HsStart(GateMaxIds)
    \/ HsMark
    \/ AuditScan
    \/ AuditEnd
    \/ AuditFin
    \/ \E enabled \in BOOLEAN : toggle_auto(enabled)
    \/ \E t \in tasks : FinishTimerFire(t)
    \/ \E t \in tasks : FinChannel(t)
    \/ \E t \in tasks : FinDraw(t)
    \/ \E t \in tasks : FinRecord(t)
    \/ Tick(GateMaxTime)

SpecGate == InitGate /\ [][NextGate]_vars

\* handle_scheduled brings a giveaway of the schedule it is at into being
GateStarts == sweep.pc = "hs_start" /\ sweep'.pc = "hs_mark"

\* one of the listed conditions holds for the schedule the sweep is at:
\* a flag is off, the entry is disabled, the sweep's clock reading is
\* before the start time of day in the workspace's zone, or an Active
\* giveaway of the schedule exists
GateClosed ==
    LET schedule == config.giveaways[sweep.i]
    IN  \/ ~config.auto_enabled
        \/ ~mem.auto_enabled
        \/ ~schedule.enabled
        \/ LocalTime(sweep.now_utc, mem.timezone) < schedule.start_time
        \/ \E g \in list_active(mem) :
              mem.giveaways[g].scheduled_id = schedule.id

\* C26: handle_scheduled never starts a giveaway for a configuration
\* schedule while the global or the workspace's automation flag is off, the
\* entry is disabled, local now is before the schedule's start time of day,
\* or an Active giveaway with that schedule id exists in the workspace
C26_NoStartWhileGateClosed == [][GateStarts => ~GateClosed]_vars

----------------------------------------------------------------------------
(* SpecClean: cleanup_finished among giveaways that end early or on time,  *)
(* under either cooldown setting                                           *)

CleanMaxIds == 2
CleanMaxTime == 5

NextClean ==
    \/ StartGiveaway(CleanMaxIds, {1}, {1, 4})
    \/ \E g \in 1..CleanMaxIds : EndNow(g)
    \/ \E t \in tasks : FinishTimerFire(t)
    \/ \E t \in tasks : FinChannel(t)
    \/ \E t \in tasks : FinDraw(t)
    \/ \E t \in tasks : FinRecord(t)
    \/ \E d \in {0, 1} : set_recent_winner_cooldown_days(d)
    \/ cleanup_finished
    \/ Tick(CleanMaxTime)

SpecClean == InitCommands /\ [][NextClean]_vars

\* the giveaways a step takes out of the workspace's list
Removed == Listed(mem) \ Listed(mem')

\* C27: cleanup_finished never removes an Active giveaway and removes only
\* Finished giveaways whose end_time is older than the cooldown retention
\* window (taken here at its shortest, cooldown_days days); every giveaway
\* it keeps is unchanged and the returned count is the number removed
C27_CleanupRemovesOnlyOldFinished ==
    [][Removed # {} =>
         /\ \A g \in Removed :
              /\ ~mem.giveaways[g].is_active
              /\ mem.giveaways[g].end_time
                   < now - Days(Max(mem.recent_winner_cooldown_days, 0))
         /\ \A g \in Listed(mem') : mem'.giveaways[g] = mem.giveaways[g]
         /\ hist'.returned = <<"cleanup_finished", Cardinality(Removed)>>]_vars

----------------------------------------------------------------------------
(* SpecAdmin: is_admin (giveaway_manager.py 216-307) asked about members   *)
(* while admin roles are added and removed                                 *)

RoleIds == {1, 2}
MemberIds == {1, 2}
OwnerId == 1
Permissions == SUBSET {"administrator", "manage_guild"}

\* add_admin_role (632-643)
add_admin_role(role_id) ==
    /\ IF \E i \in DOMAIN mem.admin_roles : mem.admin_roles[i] = role_id
       THEN UNCHANGED <<mem, disk, hist>>              \* return False
       ELSE /\ mem' = [mem EXCEPT !.admin_roles = Append(@, role_id)]
            /\ disk' = Payload(mem')
            /\ hist' = hist
    /\ UNCHANGED <<now, config, tasks, sweep, nextId, boot>>

\* list.remove: the first occurrence is taken out
ListRemove(xs, x) ==
    LET i == CHOOSE k \in DOMAIN xs :
                 xs[k] = x /\ \A j \in 1..(k - 1) : xs[j] # x
    IN  SubSeq(xs, 1, i - 1) \o SubSeq(xs, i + 1, Len(xs))

\* remove_admin_role (645-655)
remove_admin_role(role_id) ==
    /\ IF ~\E i \in DOMAIN mem.admin_roles : mem.admin_roles[i] = role_id
       THEN UNCHANGED <<mem, disk, hist>>              \* return False
       ELSE /\ mem' = [mem EXCEPT !.admin_roles = ListRemove(@, role_id)]
            /\ disk' = Payload(mem')
            /\ hist' = hist
    /\ UNCHANGED <<now, config, tasks, sweep, nextId, boot>>

\* (mutant) the global default admin roles are never consulted
effective_admin_roles_of_workspace(state_roles, config_roles) ==
    Range(state_roles)

\* is_admin, 280-287: the workspace's admin roles, or the global default
\* ones when the workspace has none
effective_admin_roles(state_roles, config_roles) ==
    IF state_roles # <<>> THEN Range(state_roles) ELSE Range(config_roles)

\* is_admin, 224-230: the owner id given, else the guild's
owner_id_of(member, guild_owner_id) ==
    IF guild_owner_id # <<>> THEN guild_owner_id
    ELSE IF member.guild.owner_id # <<>> THEN member.guild.owner_id
    ELSE member.guild._owner_id

\* is_admin, 235-247: the permissions given, else member.guild_permissions,
\* else the raw _permissions
permissions_of(member, base_permissions) ==
    IF base_permissions # <<>> THEN base_permissions
    ELSE IF member.guild_permissions # <<>> THEN member.guild_permissions
    ELSE member._permissions

\* is_admin, 257-278: the role ids given; when they are none or empty,
\* member.roles; when these are none or empty, the raw _roles
effective_role_ids(member, role_ids) ==
    LET given == IF role_ids # <<>> THEN role_ids[1] ELSE {}
        of_member == IF member.roles # <<>> THEN member.roles[1] ELSE {}
        raw == IF member._roles # <<>> THEN member._roles[1] ELSE {}
    IN  IF given # {} THEN given
        ELSE IF of_member # {} THEN of_member
        ELSE raw

\* is_admin (216-307)
is_admin(member, guild_owner_id, base_permissions, role_ids, state_roles, config_roles) ==
    LET owner_id == owner_id_of(member, guild_owner_id)
        permissions_obj == permissions_of(member, base_permissions)
        admin_roles == effective_admin_roles(state_roles, config_roles)
    IN  IF owner_id # <<>> /\ owner_id[1] = member.id THEN TRUE
        ELSE IF permissions_obj # <<>>
                /\ permissions_obj[1] \cap {"administrator", "manage_guild"} # {}
        THEN TRUE
        ELSE IF admin_roles = {} THEN FALSE
        ELSE admin_roles \cap effective_role_ids(member, role_ids) # {}

\* what a caller can know of a fact: nothing (<<>>) or the fact
Known(x) == {<<>>, <<x>>}

\* the calls about an actor `id` with permissions p and roles r in a guild
\* owned by OwnerId: the owner id, the permissions and the role ids are
\* passed or left to be read from the member
Calls(id, p, r) ==
    {c \in [member : [id : {id},
                      guild : [owner_id : Known(OwnerId), _owner_id : {<<>>}],
                      guild_permissions : {<<p>>}, _permissions : {<<>>},
                      roles : Known(r), _roles : {<<r>>}],
            guild_owner_id : Known(OwnerId),
            base_permissions : Known(p),
            role_ids : Known(r)] :
       c.guild_owner_id # <<>> \/ c.member.guild.owner_id # <<>>}

\* a caller asks is_admin about an actor
CheckAdmin ==
    /\ \E id \in MemberIds, p \in Permissions, r \in SUBSET RoleIds :
         \E c \in Calls(id, p, r) :
            hist' = Returned(hist, "is_admin",
                       [id |-> id, permissions |-> p, roles |-> r,
                        state_roles |-> mem.admin_roles,
                        config_roles |-> config.admin_roles,
                        result |-> is_admin(c.member, c.guild_owner_id,
                                            c.base_permissions, c.role_ids,
                                            mem.admin_roles,
                                            config.admin_roles)])
    /\ UNCHANGED <<now, config, mem, disk, tasks, sweep, nextId, boot>>

\* load (52-62): a workspace without admin roles is given the global ones
InitAdmin ==
    /\ now = 0
    /\ config \in {[auto_enabled |-> FALSE, giveaways |-> <<>>,
                    admin_roles |-> ar] : ar \in {<<>>, <<1>>}}
    /\ mem = [GuildState EXCEPT !.admin_roles = config.admin_roles]
    /\ disk = mem
    /\ tasks = {}
    /\ sweep = Sweep0
    /\ nextId = 1
    /\ boot = 0
    /\ hist = [Hist0 EXCEPT !.watch = TRUE]

NextAdmin ==
    \/ \E role_id \in RoleIds : add_admin_role(role_id)
    \/ \E role_id \in RoleIds : remove_admin_role(role_id)
    \/ CheckAdmin

SpecAdmin == InitAdmin /\ [][NextAdmin]_vars

\* the last answer of is_admin, if it is the last thing returned
Asked == hist.returned # <<>> /\ hist.returned[1] = "is_admin"
Answer == hist.returned[2]

\* the admin-role set the claim names: the workspace's, the global default
\* one when the workspace's is empty
AdminRoleSet(a) ==
    IF a.state_roles = <<>> THEN Range(a.config_roles)
    ELSE Range(a.state_roles)

Elevated(a) == a.permissions \cap {"administrator", "manage_guild"} # {}

\* C28: is_admin returns true exactly when the actor is the workspace
\* owner, or has the administrator or manage-workspace permission, or holds
\* at least one role of the workspace's admin-role set (the global default
\* admin roles when the workspace's set is empty); so the owner is
\* authorized whatever their roles, and an actor without elevated
\* permission whose roles are disjoint from a non-empty admin-role set is
\* denied
C28_IsAdminExactly ==
    Asked =>
      /\ Answer.result <=> \/ Answer.id = OwnerId
                           \/ Elevated(Answer)
                           \/ Answer.roles \cap AdminRoleSet(Answer) # {}
      /\ Answer.id = OwnerId => Answer.result
      /\ (/\ Answer.id # OwnerId
          /\ ~Elevated(Answer)
          /\ AdminRoleSet(Answer) # {}
          /\ Answer.roles \cap AdminRoleSet(Answer) = {}) => ~Answer.result

\* an actor who is not the owner and has no elevated permission is
\* authorized by a global default role, the workspace's set being empty
C28_Witness ==
    /\ Asked
    /\ Answer.id # OwnerId /\ ~Elevated(Answer)
    /\ Answer.state_roles = <<>> /\ Answer.config_roles # <<>>
    /\ Answer.result

----------------------------------------------------------------------------
(* SpecStore: workspace states with every kind of entity, as the commands  *)
(* build them, saved and loaded back                                       *)

StoreMaxIds == 3
StoreUsers == {1, 2}

NextStore ==
    \/ StartGiveaway(1, {2}, {1})
    \/ \E u \in StoreUsers : add_participant(1, u)
    \/ EndNow(1)
    \/ \E t \in tasks : FinChannel(t)
    \/ \E t \in tasks : FinDraw(t)
    \/ \E t \in tasks : FinRecord(t)
    \/ schedule_manual_giveaway(2, {1}, {1}, {2})
    \/ schedule_recurring_giveaway(StoreMaxIds, {1}, {1}, {2}, {FALSE})
    \/ \E role_id \in RoleIds : add_admin_role(role_id)
    \/ \E role_id \in RoleIds : remove_admin_role(role_id)

SpecStore == InitAdmin /\ [][NextStore]_vars

\* at least one giveaway, pending giveaway, recurring schedule and recent
\* winner
Populated(m) ==
    /\ Listed(m) # {}
    /\ DOMAIN m.pending_giveaways # {}
    /\ DOMAIN m.recurring_giveaways # {}
    /\ m.recent_winners # <<>>

\* the state tree of the workspace: the giveaways of its list and every
\* other field
StateTree(m) == [m EXCEPT !.giveaways = [g \in Listed(m) |-> m.giveaways[g]]]

\* C30: saving a workspace state tree and loading it back yields a state
\* equal field for field, for every state with at least one giveaway,
\* pending giveaway, recurring schedule and recent winner: the order of
\* participants, last_announced_winners, admin_roles and recent_winners
\* and the schedule_runs mapping included
C30_SaveLoadRoundTrip == Populated(mem) => Payload(mem) = StateTree(mem)

----------------------------------------------------------------------------
(* The timer registries (_finish_tasks, _pending_tasks, _recurring_tasks)   *)

\* a deferred timer that is neither completed nor cancelled: a task asleep
\* until an instant still to come
LiveTimer(t) ==
    /\ t.kind \in {"finish", "start", "recurring"}
    /\ t.pc = "sleep"
    /\ t.wake > now

\* C31: every live deferred timer is the task recorded under its entity id
\* in the timer registry, so there is at most one live timer per recurring
\* schedule id, per pending id and per giveaway id; the timer armed by a
\* recurring fire for the next window stays recorded after the fire's task
\* has ended
C31_LiveTimersAreRegistered ==
    \A t \in tasks :
       LiveTimer(t) =>
          /\ t.reg
          /\ \A u \in tasks :
                (LiveTimer(u) /\ u.kind = t.kind /\ u.id = t.id) => u = t

----------------------------------------------------------------------------
(* Pending -> Active under the state lock.  Every state of the model is    *)
(* one in which the lock is free, so a task that takes the lock next       *)
(* (get_pending, list_giveaways, any command) reads exactly that state     *)

\* pending p and the Active giveaway created from it are both in the store
PendingAndItsGiveaway(p) ==
    /\ get_pending(mem, p)
    /\ hist.pgiveaway[p] # 0
    /\ hist.pgiveaway[p] \in list_active(mem)

\* C32: Pending -> Active is atomic with respect to the state lock: no
\* task that holds the lock can observe a state in which a pending entry
\* and the Active giveaway created from it are both in the store
C32_PendingToActiveAtomic == \A p \in Ids : ~PendingAndItsGiveaway(p)

----------------------------------------------------------------------------
(* SpecLock: the state lock made visible.  toggle_auto is taken in two     *)
(* steps: it takes the lock and sets the flag, and it holds the lock while *)
(* save_state runs; whatever takes the lock waits meanwhile.  The          *)
(* finalization of a giveaway runs beside it                               *)

\* toggle_auto, 626-628: the lock is taken and the flag set; the task waits
\* for save_state with the lock held
toggle_auto_locked(enabled) ==
    /\ ~\E t \in tasks : t.kind = "toggle"
    /\ mem' = [mem EXCEPT !.auto_enabled = enabled]
    /\ tasks' = tasks \cup {Task("toggle", 0, "save", 0, FALSE, "task")}
    /\ UNCHANGED <<now, config, disk, sweep, nextId, boot, hist>>

\* toggle_auto, 629-630: save_state has written the state as it is now;
\* the lock is released
toggle_auto_saved(t) ==
    /\ t.kind = "toggle"
    /\ disk' = Payload(mem)
    /\ tasks' = tasks \ {t}
    /\ UNCHANGED <<now, config, mem, sweep, nextId, boot, hist>>

\* some task holds the state lock
LockHeld == \E t \in tasks : t.kind = "toggle"

\* end_giveaway (468), _get_recent_winner_blocklist (149) and
\* _record_recent_winners (187) take the lock; the assignment at 495 after
\* a blocklist call that waited for save_state takes none
NextLock ==
    \/ \E enabled \in BOOLEAN : toggle_auto_locked(enabled)
    \/ \E t \in tasks : toggle_auto_saved(t)
    \/ ~LockHeld /\ EndNow(1)
    \/ \E t \in tasks : FinChannel(t)
    \/ ~LockHeld /\ \E t \in tasks : FinDraw(t)
    \/ \E t \in tasks : FinDrawn(t)
    \/ ~LockHeld /\ \E t \in tasks : FinRecord(t)

SpecLock == InitChoose /\ [][NextLock]_vars

\* C33: every write to the shared workspace state is made while the state
\* lock is held by the writer, so no two transitions interleave: while a
\* task holds the lock from one state to the next, nothing of the state
\* changes
C33_WritesUnderLock == [][(LockHeld /\ LockHeld') => mem' = mem]_vars

----------------------------------------------------------------------------
(* SpecLedger: the recent-winner ledger over time.  The ledger starts with *)
(* an entry on the retention cut-off and one on each side of it for a      *)
(* cool-down of up to 30 days; the clock advances, the cool-down length is *)
(* changed between 0 and more than 30 days, a giveaway is finalized and    *)
(* rerolled and the process restarts                                       *)

LedgerLongDays == 31
LedgerMaxTime == ChooseNow + 2
LedgerMaxBoot == 1

Ledger0 ==
    <<RecentWinner(1, 2, ChooseNow - Days(RetentionDays)),
      RecentWinner(2, 2, ChooseNow - Days(RetentionDays) + 1),
      RecentWinner(3, 2, ChooseNow - Days(RetentionDays) + 2)>>

InitLedger ==
    /\ now = ChooseNow
    /\ config = Config0
    /\ \E enabled \in BOOLEAN, days \in {0, LedgerLongDays} :
         LET rec == [Giveaway(1, "t1", "d1", LedgerMaxTime + 1, NoSchedule)
                       EXCEPT !.participants = <<1, 2, 3>>]
         IN  /\ mem = [upsert_giveaway(GuildState, 1, rec) EXCEPT
                         !.recent_winner_cooldown_enabled = enabled,
                         !.recent_winner_cooldown_days = days,
                         !.recent_winners = Ledger0]
             /\ tasks = schedule_finish({}, mem, 1, FALSE, now)
    /\ disk = Payload(mem)
    /\ sweep = Sweep0
    /\ nextId = 2
    /\ boot = 0
    /\ hist = Hist0

\* the steps that call _get_recent_winner_blocklist or
\* _record_recent_winners, and the load
Pruners ==
    \/ \E t \in tasks : FinDraw(t)
    \/ \E t \in tasks : FinRecord(t)
    \/ RerollStart(1, MaxRerolls)
    \/ \E t \in tasks : RerollRecord(t)
    \/ Restart(LedgerMaxBoot)

NextLedger ==
    \/ Tick(LedgerMaxTime)
    \/ \E days \in {0, LedgerLongDays} : set_recent_winner_cooldown_days(days)
    \/ EndNow(1)
    \/ \E t \in tasks : FinChannel(t)
    \/ \E t \in tasks : FinDrawn(t)
    \/ \E t \in tasks : RerollSet(t)
    \/ Pruners

SpecLedger == InitLedger /\ [][NextLedger]_vars

\* how often e occurs in the list s
Count(e, s) == Cardinality({i \in DOMAIN s : s[i] = e})

\* the oldest instant still inside the retention window of state m at n
RetentionCutoff(m, n) ==
    n - Days(Max(m.recent_winner_cooldown_days, 30))

\* the entries of the ledger that a step takes away
Pruned ==
    {e \in Range(mem.recent_winners) :
       Count(e, mem'.recent_winners) < Count(e, mem.recent_winners)}

\* C34: a ledger entry is never removed while its won_at is within
\* max(cooldown_days, 30) days of the current time, with the cool-down
\* enabled or not and whatever cooldown_days was before; entries are
\* removed only by the load, the blocklist and the recording of winners
C34_LedgerRetention ==
    [][/\ \A e \in Pruned : e.won_at < RetentionCutoff(mem', now')
       /\ Pruned # {} => Pruners]_vars

\* the clock has advanced by one instant and a draw was made and recorded
\* with a cool-down of 0 days: the entry that left the 30-day window is
\* gone, the entry on the cut-off is kept beside the new one
C34_Witness ==
    /\ now = ChooseNow + 1
    /\ mem.recent_winner_cooldown_days = 0
    /\ \E e \in Range(mem.recent_winners) : e.giveaway_id = 1
    /\ Ledger0[1] \notin Range(mem.recent_winners)
    /\ Ledger0[2] \in Range(mem.recent_winners)
    /\ Ledger0[2].won_at = RetentionCutoff(mem, now)

----------------------------------------------------------------------------
(* SpecSeed: the admin roles of a workspace across restarts.  The          *)
(* workspace state was created with the default admin roles of the global  *)
(* configuration; roles are added and removed, the workspace's automation  *)
(* flag is switched and the process restarts                               *)

SeedRoleIds == {1, 2, 3}
SeedMaxBoot == 2

NextSeed ==
    \/ \E role_id \in SeedRoleIds : add_admin_role(role_id)
    \/ \E role_id \in SeedRoleIds : remove_admin_role(role_id)
    \/ \E enabled \in BOOLEAN : toggle_auto(enabled)
    \/ Restart(SeedMaxBoot)

SpecSeed == InitAdmin /\ [][NextSeed]_vars

\* a step of add_admin_role or remove_admin_role
AdminRoleCommand ==
    \E role_id \in SeedRoleIds :
       add_admin_role(role_id) \/ remove_admin_role(role_id)

\* C35: the default admin roles are seeded into a workspace state once,
\* when it is created; afterwards the roles in its admin_roles change only
\* through add_admin_role and remove_admin_role, so a workspace whose admin
\* roles were all removed has an empty admin_roles after a restart too
C35_AdminRolesSeededOnce ==
    [][Range(mem'.admin_roles) # Range(mem.admin_roles)
          => AdminRoleCommand]_vars

----------------------------------------------------------------------------
(* SpecPair: two Active giveaways of one workspace with participants in    *)
(* common and the cool-down enabled for one day; both giveaways are        *)
(* ended by command and their finalizations run side by side.  The ledger  *)
(* is empty or holds one entry older than the retention window            *)

PairUsers == {1, 2}
PairMaxTime == ChooseNow + 1

InitPair ==
    /\ now = ChooseNow
    /\ config = Config0
    /\ \E P1, P2 \in (SUBSET PairUsers) \ {{}},
          old \in {<<>>, <<RecentWinner(3, 3, 0)>>} :
         LET g1 == [Giveaway(1, "t1", "d1", PairMaxTime + 1, NoSchedule)
                      EXCEPT !.participants = Asc(P1)]
             g2 == [Giveaway(1, "t2", "d2", PairMaxTime + 1, NoSchedule)
                      EXCEPT !.participants = Asc(P2)]
             m == upsert_giveaway(upsert_giveaway(GuildState, 1, g1), 2, g2)
         IN  /\ mem = [m EXCEPT !.recent_winner_cooldown_enabled = TRUE,
                                !.recent_winner_cooldown_days = 1,
                                !.recent_winners = old]
             /\ tasks = schedule_finish(schedule_finish({}, mem, 1, FALSE, now),
                                        mem, 2, FALSE, now)
    /\ disk = Payload(mem)
    /\ sweep = Sweep0
    /\ nextId = 3
    /\ boot = 0
    /\ hist = Hist0

NextPair ==
    \/ Tick(PairMaxTime)
    \/ \E g \in {1, 2} : EndNow(g)
    \/ \E t \in tasks : FinChannel(t)
    \/ \E t \in tasks : FinDraw(t)
    \/ \E t \in tasks : FinDrawn(t)
    \/ \E t \in tasks : FinRecord(t)

SpecPair == InitPair /\ [][NextPair]_vars

\* two ledger entries of one user for different giveaways, won within
\* cooldown_days of each other
WonTwiceInCooldown(e, f) ==
    /\ e.user_id = f.user_id
    /\ e.giveaway_id # f.giveaway_id
    /\ e.won_at <= f.won_at
    /\ f.won_at - e.won_at <= Days(mem.recent_winner_cooldown_days)

\* C36: with the cool-down enabled and cooldown_days > 0 no user is drawn
\* as a winner of two different giveaways of the workspace within
\* cooldown_days of each other, also when the finalizations of the two
\* giveaways interleave
C36_NoTwoWinsInCooldown ==
    CooldownOn =>
       \A e, f \in Range(mem.recent_winners) : ~WonTwiceInCooldown(e, f)

----------------------------------------------------------------------------
(* The overdue audit beside a finalization in progress (SpecAudit)         *)

\* the finalization that end_giveaway started for giveaway g is in progress
EndFinalizing(g) == \E t \in tasks : t.kind = "end" /\ t.id = g

\* the audit's own finalization of giveaway g is in progress
AuditFinalizing(g) == \E t \in tasks : t.kind = "auditfin" /\ t.id = g

\* C37: the finish-time draw of a giveaway happens at most once also when
\* the overdue audit runs while the finalization started by end_giveaway
\* is in progress: the audit starts no second finalization of a giveaway
\* that is Finished and whose winners the first has not recorded yet
C37_AuditStartsNoSecondFinalization ==
    \A g \in Ids : ~(EndFinalizing(g) /\ AuditFinalizing(g))

----------------------------------------------------------------------------
(* SpecRedo: one giveaway that is ended, rerolled and met by the overdue   *)
(* audit, with the cool-down enabled or not and a ledger that is empty or  *)
(* names user 2 as a winner of another giveaway at this instant.  The      *)
(* commands, the finish timer and the sweep come one after the other:      *)
(* none starts while a finalization, a reroll or an audit is under way     *)

RedoUsers == {1, 2}
RedoMaxRerolls == 2
RedoMaxTime == ChooseNow + 1

InitRedo ==
    /\ now = ChooseNow
    /\ config = Config0
    /\ \E P \in (SUBSET RedoUsers) \ {{}}, enabled \in BOOLEAN,
          ledger \in {<<>>, <<RecentWinner(2, 2, ChooseNow)>>} :
         LET rec == [Giveaway(1, "t1", "d1", RedoMaxTime, NoSchedule)
                       EXCEPT !.participants = Asc(P)]
         IN  /\ mem = [upsert_giveaway(GuildState, 1, rec) EXCEPT
                         !.recent_winner_cooldown_enabled = enabled,
                         !.recent_winner_cooldown_days = 1,
                         !.recent_winners = ledger]
             /\ tasks = schedule_finish({}, mem, 1, FALSE, now)
    /\ disk = Payload(mem)
    /\ sweep = Sweep0
    /\ nextId = 2
    /\ boot = 0
    /\ hist = Hist0

\* no finalization, reroll or audit is under way
Settled ==
    /\ sweep.pc = "idle"
    /\ \A t \in tasks : t.kind \notin {"end", "auditfin", "reroll"}

NextRedo ==
    \/ Tick(RedoMaxTime)
    \/ Settled /\ EndNow(1)
    \/ Settled /\ \E t \in tasks : FinishTimerFire(t)
    \/ \E t \in tasks : FinChannel(t)
    \/ \E t \in tasks : FinDraw(t)
    \/ \E t \in tasks : FinRecord(t)
    \/ Settled /\ RerollStart(1, RedoMaxRerolls)
    \/ \E t \in tasks : RerollRecord(t)
    \/ \E t \in tasks : RerollSet(t)
    \/ Settled /\ SweepStart
    \/ AuditScan
    \/ AuditEnd
    \/ AuditFin

SpecRedo == InitRedo /\ [][NextRedo]_vars

\* giveaway g has had a finish-time winner: the ledger, which loses no
\* entry in the time of this specification, names a winner of g, and a
\* reroll or an audit draws one only after a finish-time draw that did
HadWinner(g) == \E e \in Range(mem.recent_winners) : e.giveaway_id = g

\* C38: once a giveaway is Finished and has had a finish-time winner its
\* participants never change; a reroll that returns no winners does not
\* make a later audit finalize the giveaway again and clear them
C38_ParticipantsOfFinishedKept ==
    [][\A g \in Listed(mem) :
         (Finished(mem, g) /\ HadWinner(g))
            => /\ g \in Listed(mem')
               /\ mem'.giveaways[g].participants
                     = mem.giveaways[g].participants]_vars

----------------------------------------------------------------------------
(* SpecMix: the giveaway of SpecRedo with commands that come at any time:  *)
(* a reroll may start while the finalization is under way, and the length  *)
(* of the cool-down is changed                                             *)

MixMaxRerolls == 1

NextMix ==
    \/ Tick(RedoMaxTime)
    \/ EndNow(1)
    \/ \E t \in tasks : FinishTimerFire(t)
    \/ \E t \in tasks : FinChannel(t)
    \/ \E t \in tasks : FinDraw(t)
    \/ \E t \in tasks : FinRecord(t)
    \/ RerollStart(1, MixMaxRerolls)
    \/ \E t \in tasks : RerollRecord(t)
    \/ \E t \in tasks : RerollSet(t)
    \/ \E days \in {0, 1} : set_recent_winner_cooldown_days(days)

SpecMix == InitRedo /\ [][NextMix]_vars

\* C39: in every reachable state a non-empty last_announced_winners of a
\* giveaway has no repeated user and is a subset of the giveaway's
\* participants, and a draw returns at most min(winners, number of
\* participants) users
C39_WinnersAmongParticipants ==
    /\ \A g \in Listed(mem) :
          LET rec == mem.giveaways[g]
          IN  rec.last_announced_winners # <<>> =>
                 /\ Distinct(rec.last_announced_winners)
                 /\ Range(rec.last_announced_winners)
                       \subseteq Range(rec.participants)
    /\ \A t \in tasks :
          t.pc \in {"record", "drawn"} =>
             Len(t.w) <= mem.giveaways[t.id].winners

----------------------------------------------------------------------------
(* The end of a configuration-driven giveaway at its start (SpecSched)     *)

\* the giveaways of a configuration schedule that a step creates
StartedBySchedule ==
    {g \in Listed(mem') \ Listed(mem) :
       mem'.giveaways[g].scheduled_id # NoSchedule}

\* C40: a configuration-driven daily giveaway is never started with an
\* end_time that is already in the past: when the first sweep of a
\* calendar date runs after that day's window has ended, handle_scheduled
\* creates no giveaway that is finished at once
C40_ScheduledStartEndsInFuture ==
    [][\A g \in StartedBySchedule : mem'.giveaways[g].end_time > now]_vars

====
